---- MODULE Spec2Model ----
(***************************************************************************)
(* Model of the error-to-fix engine of error-monitor-oz:                   *)
(*   - RepositoryFinderService.findRepository (repository resolution),     *)
(*   - BugFixOrchestratorService.processError / processUnprocessedErrors   *)
(*     (the fix workflow and the batch loop),                              *)
(*   - MockDynamoDBAdapter (the in-memory audit store),                    *)
(*   - StackTraceParserService, the severity mapping, determineAreaPath,   *)
(*   - OzAdapter.waitForCompletion and MockOzAdapter (the fix agent),      *)
(*   - ErrorMonitorApp.runContinuous / stop (the monitoring loop).         *)
(*                                                                         *)
(* Strings are sequences of tokens: the separators "/" and "." are tokens  *)
(* of their own, every other token is a run of characters holding neither. *)
(* "myorg/user-service" is <<"myorg", "/", "user-service">>.               *)
(***************************************************************************)
EXTENDS Integers, Sequences, FiniteSets, TLC

\* ------------------------------------------------------------------ bounds
\* longest frame list handed to findRepository
MaxFrames == 2
\* largest number of records in the audit store (one batch)
MaxBatch == 3
\* largest number of collaborator calls that throw in one cycle
MaxFaults == 2
\* the longest raw stack text, in lines
MaxLines == 2
\* how many parse calls are followed
MaxParses == 3
\* the longest source and repository name, in words
MaxWords == 2

\* ------------------------------------------------------- string helpers
RECURSIVE SplitFrom(_, _, _, _)
SplitFrom(s, sep, i, cur) ==
  IF i > Len(s) THEN <<cur>>
  ELSE IF s[i] = sep THEN <<cur>> \o SplitFrom(s, sep, i + 1, <<>>)
  ELSE SplitFrom(s, sep, i + 1, Append(cur, s[i]))

\* String.prototype.split(sep): the pieces between the separators
Split(s, sep) == SplitFrom(s, sep, 1, <<>>)

\* a JavaScript string is truthy iff it is not empty
Truthy(s) == Len(s) > 0

\* `${a}/${b}`
JoinSlash(a, b) == a \o <<"/">> \o b

\* Array.prototype.includes
Includes(seq, x) == \E i \in 1..Len(seq) : seq[i] = x

RECURSIVE FilterUser(_)
\* frames.filter((f) => f.isUserCode)
FilterUser(frames) ==
  IF frames = <<>> THEN <<>>
  ELSE IF Head(frames).isUserCode THEN <<Head(frames)>> \o FilterUser(Tail(frames))
  ELSE FilterUser(Tail(frames))

\* slice(0, n)
Take(seq, n) == SubSeq(seq, 1, IF Len(seq) < n THEN Len(seq) ELSE n)

\* ------------------------------------------------------ first-party test
\* the text matches one of the libraryPatterns of isUserCode
HasLibraryMarker(path) ==
  \E i \in 1..Len(path) :
     \/ path[i] \in {"node_modules", "site-packages", "vendor", "dist-packages",
                     "<anonymous>", "native"}
     \/ path[i] = "." /\ i < Len(path) /\ path[i + 1] = "gem"
     \/ path[i] = "internal" /\ i < Len(path) /\ path[i + 1] = "/"

IsUserCode(path) == ~HasLibraryMarker(path)

\* ------------------------------------------------ repository descriptors
NoInfo == [owner |-> <<>>, name |-> <<>>, fullName |-> <<>>, url |-> <<>>,
           defaultBranch |-> ""]

\* the address the host reports for the repository it knows by fullName
UrlOf(fullName) == <<"https://github.com/">> \o fullName

\* the result of a (sub)step of the resolution: a descriptor, null, or a
\* failure raised by the collaborator
RetInfo(info) == [kind |-> "info", info |-> info, err |-> ""]
RetNull == [kind |-> "null", info |-> NoInfo, err |-> ""]
RetNone == [kind |-> "none", info |-> NoInfo, err |-> ""]

\* what IGitHubAdapter.getRepository(owner, repo) can answer: a record (whose
\* fullName and defaultBranch are the collaborator's: the name asked for, or
\* the name the host knows the repository by), null, or a failure
HostName == <<"host-org", "/", "host-repo">>
GetRepositoryAnswers(owner, repo) ==
  {[kind |-> "data", fullName |-> JoinSlash(owner, repo),
    url |-> UrlOf(JoinSlash(owner, repo)), defaultBranch |-> b] :
      b \in {"main", "develop"}}
  \cup {[kind |-> "data", fullName |-> HostName, url |-> UrlOf(HostName),
         defaultBranch |-> "main"],
        [kind |-> "null", fullName |-> <<>>, url |-> <<>>, defaultBranch |-> ""],
        [kind |-> "throw", fullName |-> <<>>, url |-> <<>>, defaultBranch |-> ""]}

\* what IGitHubAdapter.searchRepositories(query) can answer: a list of
\* results (here: its first element, if any), or a failure; the owner of a
\* result is '' when the host names none (item.owner?.login ?? '')
SearchHit == [owner |-> <<"found">>, name |-> <<"repo">>,
              fullName |-> <<"found", "/", "repo">>,
              url |-> UrlOf(<<"found", "/", "repo">>)]
OwnerlessHit == [SearchHit EXCEPT !.owner = <<>>]

\* ------------------------------------------------------------ the state
VARIABLES
  repositoryMappings, \* RepositoryFinderService.repositoryMappings
  mappingCalls,       \* the addMapping calls made on the service, in order
  farg,               \* arguments of the running findRepository call
  fpc,                \* position inside findRepository
  fk,                 \* index of the first-party frame under scan
  fsub,               \* which lookup of that frame comes next: "gh" or "assoc"
  fret,               \* outcome of findRepository once fpc = "done"
  ghCalls,            \* the calls findRepository made on the source-control host
  store,              \* the audit store: the error records, in insertion order
  tickets,            \* the issue tracker: the work items created so far
  pc,                 \* position of processUnprocessedErrors / processError
  errors,             \* the batch returned by getUnprocessedErrors
  idx,                \* index in errors of the error of the current iteration
  results,            \* the results array of processUnprocessedErrors
  status,             \* the FixWorkflowStatus of the running processError
  stages,             \* the stages status has gone through in this run
  progressLog,        \* the progress values status has gone through in this run
  args,               \* the branch arguments this run passed to its collaborators
  locals,             \* stackTrace, repoInfo, bugWorkItem, ozResult, pr of the run
  err,                \* the exception caught by processError
  ret,                \* what processError returned
  calls,              \* the collaborator operations this run invoked, in order
  notified,           \* the sendErrorNotification calls of this run
  callOrder,          \* ids of the errors collaborators were called for, in order
  waitPc,             \* position inside OzAdapter.waitForCompletion and its caller
  getRunStatusImpl,   \* whose getRunStatus the wait polls
  timeoutMs,          \* the timeoutMs argument of waitForCompletion
  elapsed,            \* Date.now() - startTime
  polls,              \* how many times getRunStatus has answered
  lastStatus,         \* the status of its latest answer
  terminals,          \* how many of its answers were terminal statuses
  ozResult,           \* the OzFixResult waitForCompletion returned
  ozFix,              \* the FixResult of the run that awaited it
  sevIn,              \* the severities handed to the severity mapping
  sevOut,             \* the priority and label computed for each of them
  pRaw,               \* the raw text under study
  pMessage,           \* the errorMessage argument passed along with it
  parseLog,           \* the parse calls made so far, with what they returned
  keptFrames,         \* the frames array the latest parse call built
  sErrors,            \* MockDynamoDBAdapter.errors, in insertion order
  sMarked,            \* ids marked processed since their record was last set
  sLast,              \* the latest query on the unchanged store, with its answer
  aIn,                \* devOpsProject, error.source and repoInfo.name under study
  aOut,               \* what determineAreaPath returned for them
  runs,               \* MockOzAdapter.runs: the record of mock-run-1, mock-run-2, ...
  simulateFailure,    \* MockOzAdapter.simulateFailure
  fixCalls,           \* the MockOzAdapter.fixBug call of each run: where it is, what it returned
  mockWait,           \* the MockOzAdapter.waitForCompletion call in flight
  observed,           \* what getRunStatus and waitForCompletion have reported, in order
  isRunning,          \* ErrorMonitorApp.isRunning
  appPc,              \* position inside ErrorMonitorApp.runContinuous
  cycles,             \* how each cycle runContinuous started has ended so far
  faults              \* how many collaborator calls have failed so far

finderVars == <<repositoryMappings, mappingCalls, farg, fpc, fk, fsub, fret, ghCalls>>
workflowVars == <<store, tickets, pc, errors, idx, results, status, stages,
                  progressLog, args, locals, err, ret, calls, notified, callOrder>>
ozVars == <<waitPc, getRunStatusImpl, timeoutMs, elapsed, polls, lastStatus,
            terminals, ozResult, ozFix>>
sevVars == <<sevIn, sevOut>>
compVars == <<pRaw, pMessage, parseLog, keptFrames, sErrors, sMarked, sLast, aIn, aOut>>
mockVars == <<runs, simulateFailure, fixCalls, mockWait, observed>>
appVars == <<isRunning, appPc, cycles>>
auxVars == <<ozVars, sevVars, compVars, mockVars, appVars>>
vars == <<finderVars, workflowVars, auxVars, faults>>

\* the answers a collaborator may give now: throwing ones only while the
\* number of failures is below MaxFaults
Allowed(answers) ==
  IF faults < MaxFaults THEN answers ELSE {a \in answers : a.kind # "throw"}
AllowedOutcomes(outs) ==
  IF faults < MaxFaults THEN outs ELSE outs \ {"throw"}
Faulted(thrown) == IF thrown THEN faults + 1 ELSE faults

\* ------------------------------------------------ RepositoryFinderService
\* the log entry of one collaborator call
Call(step, op, arg, out) == [step |-> step, op |-> op, arg |-> arg, out |-> out]

\* a faulty guard: a name without owner or repo is looked up all the same
MissingSegmentIgnored(owner, repo) == FALSE
\* if (!owner || !repo)
MissingSegment(owner, repo) == ~Truthy(owner) \/ ~Truthy(repo)

\* a faulty getRepositoryInfo: a failure of getRepository is reported as
\* "no match" instead of being propagated
GetRepositoryInfoSwallowing(fullName, ans) ==
  LET parts == Split(fullName, "/")
      owner == parts[1]
      repo  == IF Len(parts) >= 2 THEN parts[2] ELSE <<>>
  IN IF MissingSegment(owner, repo)
       THEN [called |-> FALSE, owner |-> owner, repo |-> repo, ret |-> RetNull]
     ELSE IF ans.kind = "data"
       THEN [called |-> TRUE, owner |-> owner, repo |-> repo,
             ret |-> RetInfo([owner |-> owner, name |-> repo,
                              fullName |-> ans.fullName,
                              url |-> ans.url,
                              defaultBranch |-> ans.defaultBranch])]
     ELSE [called |-> TRUE, owner |-> owner, repo |-> repo, ret |-> RetNull]

\* getRepositoryInfo(fullName), given the answer `ans` the collaborator gives
\* if it is called: `called` tells whether getRepository was invoked
GetRepositoryInfo(fullName, ans) ==
  LET parts == Split(fullName, "/")
      owner == parts[1]
      repo  == IF Len(parts) >= 2 THEN parts[2] ELSE <<>>
  IN IF MissingSegment(owner, repo)
       THEN [called |-> FALSE, owner |-> owner, repo |-> repo, ret |-> RetNull]
     ELSE IF ans.kind = "null"
       THEN [called |-> TRUE, owner |-> owner, repo |-> repo, ret |-> RetNull]
     ELSE IF ans.kind = "throw"
       THEN [called |-> TRUE, owner |-> owner, repo |-> repo,
             ret |-> [kind |-> "throw", info |-> NoInfo, err |-> "getRepository"]]
     ELSE [called |-> TRUE, owner |-> owner, repo |-> repo,
           ret |-> RetInfo([owner |-> owner, name |-> repo,
                            fullName |-> ans.fullName,
                            url |-> ans.url,
                            defaultBranch |-> ans.defaultBranch])]

\* the owner and repo a lookup of fullName passes to getRepository
LookupOwner(fullName) == Split(fullName, "/")[1]
LookupRepo(fullName) ==
  LET parts == Split(fullName, "/") IN IF Len(parts) >= 2 THEN parts[2] ELSE <<>>

\* the log after a lookup: one more getRepository entry iff it was called
LogLookup(log, step, r, ans) ==
  IF r.called THEN Append(log, Call(step, "getRepository", <<r.owner, r.repo>>, ans.kind))
  ELSE log

\* last index j >= i - 1 such that no token of s[i..j] is "/"
RECURSIVE RunEnd(_, _)
RunEnd(s, i) ==
  IF i > Len(s) \/ s[i] = "/" THEN i - 1 ELSE RunEnd(s, i + 1)

\* /github\.com\/([^/]+)\/([^/]+)/ matches at token i
GithubMatchAt(s, i) ==
  /\ i + 3 <= Len(s)
  /\ s[i] = "github" /\ s[i + 1] = "." /\ s[i + 2] = "com" /\ s[i + 3] = "/"
  /\ LET e1 == RunEnd(s, i + 4)
     IN /\ e1 >= i + 4
        /\ e1 + 1 <= Len(s)
        /\ RunEnd(s, e1 + 2) >= e1 + 2

\* frame.filePath.match(/github\.com\/([^/]+)\/([^/]+)/): the leftmost match
GithubMatch(s) ==
  IF \E i \in 1..Len(s) : GithubMatchAt(s, i)
    THEN LET i  == CHOOSE j \in 1..Len(s) :
                      GithubMatchAt(s, j) /\ \A h \in 1..(j - 1) : ~GithubMatchAt(s, h)
             e1 == RunEnd(s, i + 4)
             e2 == RunEnd(s, e1 + 2)
         IN [matched |-> TRUE, owner |-> SubSeq(s, i + 4, e1),
             repo |-> SubSeq(s, e1 + 2, e2)]
  ELSE [matched |-> FALSE, owner |-> <<>>, repo |-> <<>>]


\* frame.filePath.split('/').pop()?.replace(/\.[^.]+$/, '')
FileBaseName(path) ==
  LET parts == Split(path, "/")
      \* .replace(/\.[^.]+$/, ''): drop a final extension
      StripExt(s) ==
        IF Len(s) >= 2 /\ s[Len(s) - 1] = "." /\ s[Len(s)] # "."
          THEN SubSeq(s, 1, Len(s) - 2)
        ELSE s
  IN StripExt(parts[Len(parts)])

RECURSIVE AddFileTerms(_, _)
\* the loop of searchForRepository over the first three first-party frames
AddFileTerms(terms, frames) ==
  IF frames = <<>> THEN terms
  ELSE LET fileName == FileBaseName(Head(frames).filePath)
       IN AddFileTerms(IF Truthy(fileName) /\ ~Includes(terms, fileName)
                         THEN Append(terms, fileName) ELSE terms,
                       Tail(frames))

\* a faulty term list: every first-party frame contributes, not the first three
SearchTermsOfAllFrames(source, frames) ==
  AddFileTerms(IF Truthy(source) THEN <<source>> ELSE <<>>, FilterUser(frames))
\* the searchTerms of searchForRepository
SearchTerms(source, frames) ==
  AddFileTerms(IF Truthy(source) THEN <<source>> ELSE <<>>,
               Take(FilterUser(frames), 3))

\* a faulty continuation: a found descriptor does not end the resolution
ContinueAfterNoReturn(r, next) ==
  IF r.kind = "throw" THEN "done" ELSE next

\* where findRepository goes after a lookup answered r: it returns on a
\* descriptor (and leaves on a failure), and goes on to `next` on null
ContinueAfter(r, next) ==
  IF r.kind \in {"info", "throw"} THEN "done" ELSE next

\* a faulty scan: only the first first-party frame is looked at
StackOrSearchFirstFrameOnly(frames, k) ==
  IF k <= 1 /\ k <= Len(FilterUser(frames)) THEN "stack" ELSE "search"
\* the step after the mapping step and after each frame: the next first-party
\* frame if there is one, the search otherwise
StackOrSearch(frames, k) ==
  IF k <= Len(FilterUser(frames)) THEN "stack" ELSE "search"

\* how many addMapping calls precede a resolution
MaxMappings == 1

\* a faulty addMapping: a service without a table gets one on the first call
SetMappingAlways(mappings, source, repository) ==
  [defined |-> TRUE,
   table |-> [x \in DOMAIN mappings.table \cup {source} |->
                IF x = source THEN repository ELSE mappings.table[x]]]

\* if (!this.repositoryMappings) return; this.repositoryMappings.set(source, repository)
SetMapping(mappings, source, repository) ==
  IF ~mappings.defined THEN mappings
  ELSE [mappings EXCEPT !.table =
          [x \in DOMAIN mappings.table \cup {source} |->
             IF x = source THEN repository ELSE mappings.table[x]]]

\* addMapping(source, repository), called before a resolution starts
AddMapping ==
  /\ fpc = "hint"
  /\ Len(mappingCalls) < MaxMappings
  /\ \E source \in {<<"svc">>, <<"job">>}, repository \in {<<"n", "/", "q">>} :
       /\ repositoryMappings' = SetMapping(repositoryMappings, source, repository)
       /\ mappingCalls' = Append(mappingCalls,
                                 [source |-> source, repository |-> repository])
  /\ UNCHANGED <<farg, fpc, fk, fsub, fret, ghCalls, workflowVars, auxVars, faults>>

\* step 1: if (error.repository) { getRepositoryInfo(error.repository) ... }
FinderHint ==
  /\ fpc = "hint"
  /\ IF Truthy(farg.repository)
       THEN \E ans \in Allowed(GetRepositoryAnswers(LookupOwner(farg.repository),
                                            LookupRepo(farg.repository))) :
              LET r == GetRepositoryInfo(farg.repository, ans)
              IN /\ ghCalls' = LogLookup(ghCalls, "hint", r, ans)
                 /\ faults' = Faulted(r.called /\ ans.kind = "throw")
                 /\ fpc' = ContinueAfter(r.ret, "mapping")
                 /\ fret' = IF fpc' = "done" THEN r.ret ELSE fret
       ELSE /\ fpc' = "mapping"
            /\ UNCHANGED <<ghCalls, fret, faults>>
  /\ UNCHANGED <<repositoryMappings, mappingCalls, farg, fk, fsub, workflowVars, auxVars>>

\* step 2: if (this.repositoryMappings?.has(error.source)) { ... }
FinderMapping ==
  /\ fpc = "mapping"
  /\ IF repositoryMappings.defined /\ farg.source \in DOMAIN repositoryMappings.table
       THEN LET mappedRepo == repositoryMappings.table[farg.source]
            IN \E ans \in Allowed(GetRepositoryAnswers(LookupOwner(mappedRepo),
                                               LookupRepo(mappedRepo))) :
                 LET r == GetRepositoryInfo(mappedRepo, ans)
                 IN /\ ghCalls' = LogLookup(ghCalls, "mapping", r, ans)
                    /\ faults' = Faulted(r.called /\ ans.kind = "throw")
                    /\ fpc' = ContinueAfter(r.ret, StackOrSearch(farg.frames, 1))
                    /\ fret' = IF fpc' = "done" THEN r.ret ELSE fret
       ELSE /\ fpc' = StackOrSearch(farg.frames, 1)
            /\ UNCHANGED <<ghCalls, fret, faults>>
  /\ fk' = 1
  /\ fsub' = "gh"
  /\ UNCHANGED <<repositoryMappings, mappingCalls, farg, workflowVars, auxVars>>

\* step 3, first half of the loop body: the github.com/owner/repo pattern
FinderStackGithub ==
  /\ fpc = "stack" /\ fsub = "gh"
  /\ LET frame == FilterUser(farg.frames)[fk]
         m     == GithubMatch(frame.filePath)
     IN IF m.matched /\ Truthy(m.owner) /\ Truthy(m.repo)
          THEN \E ans \in Allowed(GetRepositoryAnswers(LookupOwner(JoinSlash(m.owner, m.repo)),
                                               LookupRepo(JoinSlash(m.owner, m.repo)))) :
                 LET r == GetRepositoryInfo(JoinSlash(m.owner, m.repo), ans)
                 IN /\ ghCalls' = LogLookup(ghCalls, "stack", r, ans)
                    /\ faults' = Faulted(r.called /\ ans.kind = "throw")
                    /\ fpc' = ContinueAfter(r.ret, "stack")
                    /\ fret' = IF fpc' = "done" THEN r.ret ELSE fret
          ELSE UNCHANGED <<ghCalls, fpc, fret, faults>>
  /\ fsub' = "assoc"
  /\ UNCHANGED <<repositoryMappings, mappingCalls, farg, fk, workflowVars, auxVars>>

\* step 3, second half of the loop body: frame.repository
FinderStackAssoc ==
  /\ fpc = "stack" /\ fsub = "assoc"
  /\ LET frame == FilterUser(farg.frames)[fk]
     IN IF Truthy(frame.repository)
          THEN \E ans \in Allowed(GetRepositoryAnswers(LookupOwner(frame.repository),
                                               LookupRepo(frame.repository))) :
                 LET r == GetRepositoryInfo(frame.repository, ans)
                 IN /\ ghCalls' = LogLookup(ghCalls, "stack", r, ans)
                    /\ faults' = Faulted(r.called /\ ans.kind = "throw")
                    /\ fpc' = ContinueAfter(r.ret, StackOrSearch(farg.frames, fk + 1))
                    /\ fret' = IF fpc' = "done" THEN r.ret ELSE fret
          ELSE /\ fpc' = StackOrSearch(farg.frames, fk + 1)
               /\ UNCHANGED <<ghCalls, fret, faults>>
  /\ fk' = fk + 1
  /\ fsub' = "gh"
  /\ UNCHANGED <<repositoryMappings, mappingCalls, farg, workflowVars, auxVars>>

\* step 4 and the final return null
FinderSearch ==
  /\ fpc = "search"
  /\ LET terms == SearchTerms(farg.source, farg.frames)
         none == [owner |-> <<>>, name |-> <<>>, fullName |-> <<>>, url |-> <<>>]
     IN \E ans \in Allowed({[kind |-> "hits", first |-> SearchHit],
                            [kind |-> "hits", first |-> OwnerlessHit],
                            [kind |-> "empty", first |-> none],
                            [kind |-> "throw", first |-> none]}) :
          \* searchForRepository, given the searchTerms and the answer
          LET r == IF Len(terms) = 0 THEN [called |-> FALSE, ret |-> RetNull]
                   ELSE IF ans.kind = "hits"
                     THEN [called |-> TRUE,
                           ret |-> RetInfo([owner |-> ans.first.owner,
                                            name |-> ans.first.name,
                                            fullName |-> ans.first.fullName,
                                            url |-> ans.first.url,
                                            defaultBranch |-> "main"])]
                   ELSE [called |-> TRUE, ret |-> RetNull]
          IN /\ ghCalls' = IF r.called
                             THEN Append(ghCalls, Call("search", "searchRepositories",
                                                       terms, ans.kind))
                             ELSE ghCalls
             /\ fret' = r.ret
             /\ faults' = Faulted(r.called /\ ans.kind = "throw")
  /\ fpc' = "done"
  /\ UNCHANGED <<repositoryMappings, mappingCalls, farg, fk, fsub, workflowVars, auxVars>>

\* ------------------------------------------------ StackTraceParserService
\* A raw stack text is a sequence of lines (the pieces between its "\n"; the
\* empty text is the one empty line).  A line records which of the service's
\* patterns its form can match (kind), its trimmed text, the file reference
\* or dotted name it carries (path, in tokens), the qualified class name of a
\* Java frame line, and, for a line of the form "<word>: <message>" whose word
\* ends in Error or Exception, that word and that message (errorType,
\* errorMessage): the kind is "header" when the word has characters before
\* its final Error or Exception, as the patterns of extractErrorInfo require,
\* and "bareError" when the word is Error itself.
Line(kind, text, path) ==
  [kind |-> kind, text |-> text, path |-> path, className |-> <<>>,
   errorType |-> "", errorMessage |-> ""]

\* "    at fn (path:line:col)"
JsCallLine(path) == Line("jsCall", "at fn (file:1:1)", path)
\* "plain words"
TextLine == Line("text", "Some random text", <<>>)
BlankLine == Line("blank", "", <<>>)

\* the extension of a file reference: the token after its last "."
Ext(path) ==
  IF Len(path) >= 2 /\ path[Len(path) - 1] = "." THEN path[Len(path)] ELSE ""

\* the regular expressions of the service, by name: the line matches
Matches(pattern, line) ==
  CASE \* /at\s+.*\s+\(.*\.(?:ts|js|tsx|jsx):\d+:\d+\)/
       pattern = "ecmascript" ->
         line.kind = "jsCall" /\ Ext(line.path) \in {"ts", "js", "tsx", "jsx"}
       \* /File ".*\.py", line \d+/ and the framePattern of parsePythonFrames
    [] pattern = "python" -> line.kind = "py" /\ Ext(line.path) = "py"
       \* /\.go:\d+/ and the framePattern of parseGoFrames
    [] pattern = "go" -> line.kind \in {"goFile", "goTrace"} /\ Ext(line.path) = "go"
       \* /goroutine/
    [] pattern = "goroutine" -> line.kind = "goTrace"
       \* /at\s+[\w.]+\([\w.]+\.java:\d+\)/
    [] pattern = "java" -> line.kind = "java" /\ Ext(line.path) = "java"
       \* /at\s+[\w.]+\s+in\s+.*\.cs:line\s+\d+/
    [] pattern = "csharp" -> line.kind = "cs" /\ Ext(line.path) = "cs"
       \* /\.rb:\d+:in `/
    [] pattern = "ruby" -> line.kind = "rb" /\ Ext(line.path) = "rb"
       \* /\.rs:\d+:\d+/
    [] pattern = "rust" -> line.kind = "rsPanic" /\ Ext(line.path) = "rs"
       \* /thread '.*' panicked/
    [] pattern = "panicked" -> line.kind = "rsPanic"
       \* the framePattern of parseJavaScriptFrames
    [] pattern = "ecmascriptFrame" ->
         /\ line.kind \in {"jsCall", "jsBare"}
         /\ Ext(line.path) \in {"ts", "js", "tsx", "jsx", "mjs", "cjs"}
       \* the framePattern of parseJavaFrames
    [] pattern = "javaFrame" -> line.kind = "java"
       \* the fileLinePattern of parseGenericFrames: a file name with an
       \* extension directly followed by ":digits"
    [] pattern = "fileLine" ->
         line.kind \in {"jsCall", "jsBare", "goFile", "goTrace", "java", "rb", "rsPanic"}

\* regex.test(stackTrace): some line of the text matches
Test(pattern, lines) == \E i \in 1..Len(lines) : Matches(pattern, lines[i])

\* stackTrace.includes('.ts'): a "." followed by a word that starts with ts,
\* anywhere in the text
IncludesDotTs(lines) ==
  \E i \in 1..Len(lines) : \E j \in 1..Len(lines[i].path) :
     /\ lines[i].path[j] = "."
     /\ j < Len(lines[i].path)
     /\ lines[i].path[j + 1] \in {"ts", "tsx"}

DetectLanguageGoFirst(lines) ==
  IF Test("ecmascript", lines)
    THEN IF IncludesDotTs(lines) THEN "typescript" ELSE "javascript"
  ELSE IF Test("go", lines) /\ Test("goroutine", lines) THEN "go"
  ELSE IF Test("python", lines) THEN "python"
  ELSE IF Test("java", lines) THEN "java"
  ELSE IF Test("csharp", lines) THEN "csharp"
  ELSE IF Test("ruby", lines) THEN "ruby"
  ELSE IF Test("rust", lines) /\ Test("panicked", lines) THEN "rust"
  ELSE "unknown"
\* detectLanguage(stackTrace)
DetectLanguage(lines) ==
  IF Test("ecmascript", lines)
    THEN IF IncludesDotTs(lines) THEN "typescript" ELSE "javascript"
  ELSE IF Test("python", lines) THEN "python"
  ELSE IF Test("go", lines) /\ Test("goroutine", lines) THEN "go"
  ELSE IF Test("java", lines) THEN "java"
  ELSE IF Test("csharp", lines) THEN "csharp"
  ELSE IF Test("ruby", lines) THEN "ruby"
  ELSE IF Test("rust", lines) /\ Test("panicked", lines) THEN "rust"
  ELSE "unknown"

\* const frames: StackFrame[] = []
NewFramesKept == keptFrames
NewFrames == <<>>

\* the text parseJavaFrames hands to isUserCode
JavaClassifiedByFile(line) == line.path
JavaClassified(line) == line.className

RECURSIVE PushFrames(_, _, _)
\* the loop of a frame parser over the lines, by its frame pattern: a
\* matching line pushes a frame; parseJavaFrames keeps the class name and
\* classifies by it, the others classify the file path; parseGenericFrames
\* skips a reference whose path is already in the array
PushFrames(frames, lines, pattern) ==
  IF lines = <<>> THEN frames
  ELSE LET line == Head(lines)
           known == \E i \in 1..Len(frames) : frames[i].filePath = line.path
           frame == [filePath |-> line.path,
                     className |-> IF pattern = "javaFrame" THEN line.className
                                   ELSE <<>>,
                     isUserCode |-> IsUserCode(IF pattern = "javaFrame"
                                                 THEN JavaClassified(line)
                                                 ELSE line.path),
                     repository |-> <<>>]
       IN PushFrames(IF Matches(pattern, line) /\ ~(pattern = "fileLine" /\ known)
                       THEN Append(frames, frame) ELSE frames,
                     Tail(lines), pattern)

\* an optional errorMessage argument
NoMessage == [given |-> FALSE, text |-> ""]
Given(text) == [given |-> TRUE, text |-> text]

ExtractErrorInfoFirstLineOnly(lines, providedMessage) ==
  IF lines[1].kind = "header"
    THEN [type |-> lines[1].errorType, message |-> lines[1].errorMessage]
    ELSE [type |-> "", message |-> lines[1].text]
\* extractErrorInfo(stackTrace, providedMessage): the first line, trimmed, is
\* matched against /^(\w+Error):\s*(.+)$/ and
\* /^([\w.]+Error|[\w.]+Exception):\s*(.+)$/; the type "" is undefined
ExtractErrorInfo(lines, providedMessage) ==
  IF lines[1].kind = "header"
    THEN [type |-> lines[1].errorType, message |-> lines[1].errorMessage]
    ELSE [type |-> "",
          message |-> IF providedMessage.given THEN providedMessage.text
                      ELSE lines[1].text]

\* parse(rawStackTrace, errorMessage); parseFrames(stackTrace, language) is
\* parseJavaScriptFrames, parsePythonFrames, parseGoFrames, parseJavaFrames, or
\* parseGenericFrames by default
Parse(lines, errorMessage) ==
  [raw |-> lines,
   frames |-> LET language == DetectLanguage(lines)
              IN PushFrames(NewFrames, lines,
                   CASE language \in {"typescript", "javascript"} -> "ecmascriptFrame"
                     [] language = "python" -> "python"
                     [] language = "go" -> "go"
                     [] language = "java" -> "javaFrame"
                     [] OTHER -> "fileLine"),
   language |-> DetectLanguage(lines),
   errorMessage |-> ExtractErrorInfo(lines, errorMessage).message,
   errorType |-> ExtractErrorInfo(lines, errorMessage).type]

\* ------------------------------------------------------ the audit store
NoMetadata == [workItemId |-> 0, pullRequestUrl |-> <<>>, branch |-> <<>>,
               ozRunId |-> <<>>, fixedAt |-> <<>>]

\* { ...error.metadata, ...metadata }: the fields given override
MergeMetadata(old, new, keys) ==
  [k \in DOMAIN old |-> IF k \in keys THEN new[k] ELSE old[k]]

\* processUnprocessedErrors asks for at most this many errors
BatchLimit == 10

\* a faulty updateErrorWithFixInfo: the metadata is replaced, not merged
UpdateFixInfoReplacing(recs, id, fixInfo) ==
  [i \in 1..Len(recs) |->
     IF recs[i].id = id
       THEN [recs[i] EXCEPT !.metadata = MergeMetadata(NoMetadata, fixInfo,
                               {"workItemId", "pullRequestUrl", "branch", "fixedAt"})]
     ELSE recs[i]]

\* MockDynamoDBAdapter.updateErrorWithFixInfo(id, fixInfo)
UpdateFixInfoIn(recs, id, fixInfo) ==
  [i \in 1..Len(recs) |->
     IF recs[i].id = id
       THEN [recs[i] EXCEPT !.metadata = MergeMetadata(@, fixInfo,
                               {"workItemId", "pullRequestUrl", "branch", "fixedAt"})]
     ELSE recs[i]]

\* an optional field of AuditLogErrorFilter
Absent == [given |-> FALSE, value |-> 0]
Some(v) == [given |-> TRUE, value |-> v]

\* a faulty filter: the severity list is not applied
PassesAnySeverity(e, filter) ==
  /\ ~e.processed
  /\ (filter.source.given /\ filter.source.value # "") =>
       e.source = filter.source.value
  /\ (filter.since.given /\ filter.since.value # 0) =>
       e.timestamp >= filter.since.value
\* the filter steps of getUnprocessedErrors that apply: a field that is
\* absent, an empty severity list, an empty source, and a since or a limit
\* that is falsy do not filter
Passes(e, filter) ==
  /\ ~e.processed
  /\ (filter.severity.given /\ filter.severity.value # {}) =>
       e.severity \in filter.severity.value
  /\ (filter.source.given /\ filter.source.value # "") =>
       e.source = filter.source.value
  /\ (filter.since.given /\ filter.since.value # 0) =>
       e.timestamp >= filter.since.value

\* a faulty query: processed records are not left out
QueryIncludingProcessed(recs, filter) ==
  LET r == SelectSeq(recs, LAMBDA e :
             Passes([e EXCEPT !.processed = FALSE], filter))
  IN IF filter.limit.given /\ filter.limit.value # 0
       THEN Take(r, filter.limit.value) ELSE r
\* MockDynamoDBAdapter.getUnprocessedErrors(filter)
QueryUnprocessed(recs, filter) ==
  LET r == SelectSeq(recs, LAMBDA e : Passes(e, filter))
  IN IF filter.limit.given /\ filter.limit.value # 0
       THEN Take(r, filter.limit.value) ELSE r

\* no query made on the store as it is
NoLast ==
  [op |-> "none",
   filter |-> [severity |-> Absent, source |-> Absent, since |-> Absent,
               limit |-> Absent],
   answer |-> <<>>,
   stats |-> [totalUnprocessed |-> 0, bySeverity |-> <<>>, bySource |-> <<>>]]

\* ------------------------------------------------------ determineAreaPath
\* A source or repository name is a sequence of words.  The sourceToArea
\* table, in the order of its entries:
SourceToArea ==
  <<[pattern |-> "user-service", area |-> "User Management"],
    [pattern |-> "auth-service", area |-> "Authentication"],
    [pattern |-> "api-gateway", area |-> "API"],
    [pattern |-> "report-service", area |-> "Reporting"],
    [pattern |-> "notification-service", area |-> "Notifications"],
    [pattern |-> "payment-service", area |-> "Payments"],
    [pattern |-> "order-service", area |-> "Orders"],
    [pattern |-> "inventory-service", area |-> "Inventory"],
    [pattern |-> "frontend", area |-> "Frontend"],
    [pattern |-> "web", area |-> "Frontend"],
    [pattern |-> "mobile", area |-> "Mobile"],
    [pattern |-> "backend", area |-> "Backend"],
    [pattern |-> "infrastructure", area |-> "Infrastructure"],
    [pattern |-> "devops", area |-> "DevOps"]>>

\* text.toLowerCase().includes(pattern): some word of the text, in lower
\* case, contains the pattern
LowerIncludes(text, pattern) ==
  LET toLowerCase(word) == CASE word = "Auth-Service" -> "auth-service"
                             [] word = "MOBILE" -> "mobile"
                             [] OTHER -> word
      includes(word) == word = pattern \/ (word = "webhook" /\ pattern = "web")
  IN \E i \in 1..Len(text) : includes(toLowerCase(text[i]))

\* the first entry of the table, in table order, whose pattern the text
\* contains; 0 if there is none
FirstEntry(text) ==
  IF \E k \in 1..Len(SourceToArea) : LowerIncludes(text, SourceToArea[k].pattern)
    THEN CHOOSE k \in 1..Len(SourceToArea) :
           /\ LowerIncludes(text, SourceToArea[k].pattern)
           /\ \A h \in 1..(k - 1) : ~LowerIncludes(text, SourceToArea[h].pattern)
    ELSE 0

\* a return value of determineAreaPath: a path, or undefined; asked is
\* FALSE as long as it has not been called
Returned(defined, path) == [asked |-> TRUE, defined |-> defined, path |-> path]

\* a faulty derivation: the repository name is tested before the source
DetermineAreaPathNameFirst(project, source, name) ==
  IF project = "" THEN Returned(FALSE, <<>>)
  ELSE IF FirstEntry(name) # 0
    THEN Returned(TRUE, <<project, "\\", SourceToArea[FirstEntry(name)].area>>)
  ELSE IF FirstEntry(source) # 0
    THEN Returned(TRUE, <<project, "\\", SourceToArea[FirstEntry(source)].area>>)
  ELSE Returned(TRUE, <<project>>)
\* determineAreaPath(error, repoInfo) with config.devOpsProject = project,
\* error.source = source and repoInfo.name = name: undefined without a
\* project, `${project}\\${area}` for the first entry that matches the source
\* or else the name, and the project itself otherwise
DetermineAreaPath(project, source, name) ==
  IF project = "" THEN Returned(FALSE, <<>>)
  ELSE IF FirstEntry(source) # 0
    THEN Returned(TRUE, <<project, "\\", SourceToArea[FirstEntry(source)].area>>)
  ELSE IF FirstEntry(name) # 0
    THEN Returned(TRUE, <<project, "\\", SourceToArea[FirstEntry(name)].area>>)
  ELSE Returned(TRUE, <<project>>)

\* a faulty mapping: warning and info are swapped
mapErrorSeverityToBugPrioritySwapped(severity) ==
  CASE severity = "critical" -> 1
    [] severity = "error" -> 2
    [] severity = "warning" -> 4
    [] severity = "info" -> 3
    [] OTHER -> 2

\* ------------------------------------------------------------- models
\* mapErrorSeverityToBugPriority
mapErrorSeverityToBugPriority(severity) ==
  CASE severity = "critical" -> 1
    [] severity = "error" -> 2
    [] severity = "warning" -> 3
    [] severity = "info" -> 4
    [] OTHER -> 2

\* mapErrorSeverityToBugSeverity
mapErrorSeverityToBugSeverity(severity) ==
  CASE severity = "critical" -> "1 - Critical"
    [] severity = "error" -> "2 - High"
    [] severity = "warning" -> "3 - Medium"
    [] severity = "info" -> "4 - Low"
    [] OTHER -> "2 - High"

\* --------------------------------------------- BugFixOrchestratorService
NoLocals == [frames |-> <<>>, repoInfo |-> NoInfo, workItemId |-> 0,
             branchName |-> <<>>, ozRunId |-> <<>>, ozError |-> "", prUrl |-> <<>>]
NoResult == [success |-> FALSE, errorId |-> "", repository |-> <<>>, branch |-> <<>>,
             pullRequestUrl |-> <<>>, workItemId |-> 0, ozRunId |-> <<>>,
             errorMessage |-> ""]

\* a faulty updateStatus: the progress is not stored
updateStatusKeeping(current, stage, progress, message) ==
  [current EXCEPT !.stage = stage, !.message = message]

\* updateStatus(current, stage, progress, message)
updateStatus(current, stage, progress, message) ==
  [current EXCEPT !.stage = stage, !.progress = progress, !.message = message]

\* const status: FixWorkflowStatus = { stage: 'initializing', progress: 0, ... }
InitialStatus ==
  [stage |-> "initializing", progress |-> 0, message |-> "Starting error processing",
   error |-> ""]

\* the error of the current iteration of the batch loop
CurError == errors[idx]

\* the log of the errors collaborators were called for
NoteCall(order, id) ==
  IF order # <<>> /\ order[Len(order)] = id THEN order ELSE Append(order, id)

\* const errors = await this.dynamoAdapter.getUnprocessedErrors({...})
GetUnprocessedErrors ==
  /\ pc = "start"
  /\ \E out \in AllowedOutcomes({"ok", "throw"}) :
       /\ faults' = Faulted(out = "throw")
       /\ IF out = "ok"
            THEN /\ errors' = QueryUnprocessed(store, [severity |-> Some({"critical", "error"}),
                                                      source |-> Absent, since |-> Absent,
                                                      limit |-> Some(BatchLimit)])
                 /\ pc' = "loop"
            ELSE /\ errors' = <<>>
                 /\ pc' = "cycleThrew"
  /\ idx' = 1
  /\ results' = <<>>
  /\ UNCHANGED <<finderVars, auxVars, store, tickets, args, status, stages, progressLog, locals, err, ret,
                 calls, notified, callOrder>>

\* processError, up to its first await: the status is created, step 1 parses
\* the stack trace, step 2 calls findRepository
BeginProcessError ==
  /\ pc = "loop" /\ idx <= Len(errors)
  /\ status' = updateStatus(InitialStatus, "parsing_error", 10, "Parsing stack trace")
  /\ stages' = <<InitialStatus.stage, "parsing_error">>
  /\ progressLog' = <<InitialStatus.progress, status'.progress>>
  /\ args' = <<>>
  /\ locals' = [NoLocals EXCEPT !.frames = Parse(CurError.stackTrace, Given(CurError.message)).frames]
  /\ farg' = [repository |-> CurError.repository, source |-> CurError.source,
              frames |-> Parse(CurError.stackTrace, Given(CurError.message)).frames]
  /\ fpc' = "hint"
  /\ fk' = 1
  /\ fsub' = "gh"
  /\ fret' = RetNone
  /\ ghCalls' = <<>>
  /\ err' = ""
  /\ ret' = NoResult
  /\ calls' = <<"findRepository">>
  /\ notified' = <<>>
  /\ pc' = "find"
  /\ UNCHANGED <<auxVars, repositoryMappings, mappingCalls, store, tickets, errors, idx, results, callOrder,
                 faults>>

\* a faulty null check: a missing repository does not abort the run
AfterResolutionUnchecked(r) ==
  IF r.kind = "throw" THEN "catch" ELSE "createBug"

\* lines 139-142: a failure of findRepository, or `if (!repoInfo) throw`
AfterResolution(r) ==
  IF r.kind = "info" THEN "createBug" ELSE "catch"

\* findRepository has returned
ResolveRepository ==
  /\ pc = "find" /\ fpc = "done"
  /\ pc' = AfterResolution(fret)
  /\ locals' = [locals EXCEPT !.repoInfo = fret.info]
  /\ err' = IF fret.kind = "throw" THEN fret.err
            ELSE IF fret.kind = "null" THEN "Could not identify repository"
            ELSE ""
  /\ fpc' = "idle"
  /\ callOrder' = IF ghCalls # <<>> THEN NoteCall(callOrder, CurError.id) ELSE callOrder
  /\ UNCHANGED <<auxVars, repositoryMappings, mappingCalls, farg, fk, fsub, fret, ghCalls, store, tickets,
                 errors, args, idx, results, status, stages, progressLog, ret, calls, notified, faults>>

\* a faulty order of the steps: the comment is added before the PR is linked
StepAfterSwapped(op) ==
  CASE op = "createBug" -> "createBranch"
    [] op = "createBranch" -> "fixBug"
    [] op = "fixBug" -> "createPullRequest"
    [] op = "createPullRequest" -> "addComment"
    [] op = "addComment" -> "linkPullRequest"
    [] op = "linkPullRequest" -> "sendPRNotification"
    [] op = "sendPRNotification" -> "markAsProcessed"
    [] op = "markAsProcessed" -> "updateErrorWithFixInfo"
    [] op = "updateErrorWithFixInfo" -> "returned"

\* the statement order of the try block: what follows a call that returned
StepAfter(op) ==
  CASE op = "createBug" -> "createBranch"
    [] op = "createBranch" -> "fixBug"
    [] op = "fixBug" -> "createPullRequest"
    [] op = "createPullRequest" -> "linkPullRequest"
    [] op = "linkPullRequest" -> "addComment"
    [] op = "addComment" -> "sendPRNotification"
    [] op = "sendPRNotification" -> "markAsProcessed"
    [] op = "markAsProcessed" -> "updateErrorWithFixInfo"
    [] op = "updateErrorWithFixInfo" -> "returned"

\* a faulty try block: a call that threw is made again
AfterCallRetrying(op, ok) ==
  IF ok THEN StepAfter(op) ELSE op

\* an awaited call of the try block either returns, and the next statement
\* runs, or throws, and control goes to the catch block
AfterCall(op, ok) ==
  IF ok THEN StepAfter(op) ELSE "catch"

\* a faulty try block: a call that threw is noted, and the next statement
\* runs all the same
InvokeUnchecked(op, ok) ==
  /\ calls' = Append(calls, op)
  /\ callOrder' = NoteCall(callOrder, CurError.id)
  /\ pc' = StepAfter(op)
  /\ err' = IF ok THEN err ELSE op
  /\ faults' = Faulted(~ok)
\* one collaborator call of the try block: it is logged, and either returns
\* (the run goes on with the next statement) or throws (the run goes to the
\* catch block with the failure, which is named after the operation)
Invoke(op, ok) ==
  /\ calls' = Append(calls, op)
  /\ callOrder' = NoteCall(callOrder, CurError.id)
  /\ pc' = AfterCall(op, ok)
  /\ err' = IF ok THEN err ELSE op
  /\ faults' = Faulted(~ok)

\* step 3: the work item
CreateBug ==
  /\ pc = "createBug"
  /\ status' = updateStatus(status, "creating_work_item", 20, "Creating bug work item")
  /\ stages' = Append(stages, "creating_work_item")
  /\ progressLog' = Append(progressLog, status'.progress)
  /\ \E out \in AllowedOutcomes({"ok", "throw"}) :
       /\ Invoke("createBug", out = "ok")
       /\ IF out = "ok"
            THEN /\ tickets' = Append(tickets,
                       [id |-> 1000 + Len(tickets),
                        relatedErrorId |-> CurError.id,
                        priority |-> mapErrorSeverityToBugPriority(CurError.severity)])
                 /\ locals' = [locals EXCEPT !.workItemId = 1000 + Len(tickets)]
            ELSE UNCHANGED <<tickets, locals>>
  /\ UNCHANGED <<finderVars, auxVars, store, errors, args, idx, results, ret, notified>>

\* the arguments of a call that names a branch
BranchCall(op, info, branch, base) ==
  [op |-> op, owner |-> info.owner, repo |-> info.name, repository |-> info.fullName,
   branch |-> branch, base |-> base]

\* a faulty branch name: the error id is left out
BranchNameFixed(id) == <<"bug", "/", "auto-fix">>

\* const branchName = `bug/auto-fix-${error.id}`
BranchName(id) == <<"bug", "/", "auto-fix-", id>>

\* step 4: the branch
CreateBranch ==
  /\ pc = "createBranch"
  /\ status' = updateStatus(status, "creating_branch", 40, "Creating bug branch")
  /\ stages' = Append(stages, "creating_branch")
  /\ progressLog' = Append(progressLog, status'.progress)
  /\ locals' = [locals EXCEPT !.branchName = BranchName(CurError.id)]
  /\ args' = Append(args, BranchCall("createBranch", locals.repoInfo,
                                     locals'.branchName, locals.repoInfo.defaultBranch))
  /\ \E out \in AllowedOutcomes({"ok", "throw"}) : Invoke("createBranch", out = "ok")
  /\ UNCHANGED <<finderVars, auxVars, store, tickets, errors, idx, results, ret, notified>>

\* the error texts an OzFixResult with success = false carries
TimeoutError == "Timeout after 300000ms"

\* `Oz agent failed to fix bug: ${ozResult.error}`
OzFailureMessage(e) ==
  CASE e = "Run cancelled" -> "Oz agent failed to fix bug: Run cancelled"
    [] e = TimeoutError -> "Oz agent failed to fix bug: Timeout after 300000ms"
    [] e = "Agent crashed" -> "Oz agent failed to fix bug: Agent crashed"
    [] e = "Timeout after 0ms" -> "Oz agent failed to fix bug: Timeout after 0ms"
    [] OTHER -> "Oz agent failed to fix bug: undefined"

\* a faulty check of the agent's result: a failed fix goes on to the pull request
AfterAgentUnchecked(success) == AfterCall("fixBug", TRUE)

\* if (!ozResult.success) throw new Error(...)
AfterAgent(success) ==
  IF success THEN AfterCall("fixBug", TRUE) ELSE "catch"

\* step 5: the fix agent
FixBug ==
  /\ pc = "fixBug"
  /\ status' = updateStatus(status, "running_oz_agent", 50, "Running Oz agent to fix bug")
  /\ stages' = Append(stages, "running_oz_agent")
  /\ progressLog' = Append(progressLog, status'.progress)
  /\ args' = Append(args, BranchCall("fixBug", locals.repoInfo, locals.branchName, ""))
  /\ calls' = Append(calls, "fixBug")
  /\ callOrder' = NoteCall(callOrder, CurError.id)
  /\ \/ \E out \in AllowedOutcomes({"success", "throw"}) :
          /\ faults' = Faulted(out = "throw")
          /\ pc' = IF out = "throw" THEN AfterCall("fixBug", FALSE) ELSE AfterAgent(TRUE)
          /\ err' = IF out = "throw" THEN "fixBug" ELSE err
          /\ locals' = IF out = "throw" THEN locals
                       ELSE [locals EXCEPT !.ozRunId = <<"run-", CurError.id>>]
     \/ \E e \in {x \in {"Run cancelled", TimeoutError} : faults < MaxFaults} :
          /\ faults' = Faulted(TRUE)
          /\ pc' = AfterAgent(FALSE)
          /\ err' = IF pc' = "catch" THEN OzFailureMessage(e) ELSE err
          /\ locals' = [locals EXCEPT !.ozRunId = <<"run-", CurError.id>>,
                                      !.ozError = e]
  /\ UNCHANGED <<finderVars, auxVars, store, tickets, errors, idx, results, ret, notified>>

\* step 6: the draft pull request
CreatePullRequest ==
  /\ pc = "createPullRequest"
  /\ status' = updateStatus(status, "creating_pull_request", 80,
                            "Creating draft pull request")
  /\ stages' = Append(stages, "creating_pull_request")
  /\ progressLog' = Append(progressLog, status'.progress)
  /\ args' = Append(args, BranchCall("createPullRequest", locals.repoInfo,
                                     locals.branchName, locals.repoInfo.defaultBranch))
  /\ \E out \in AllowedOutcomes({"ok", "throw"}) :
       /\ Invoke("createPullRequest", out = "ok")
       /\ locals' = IF out = "ok"
                      THEN [locals EXCEPT !.prUrl = <<"pull", "/", CurError.id>>]
                      ELSE locals
  /\ UNCHANGED <<finderVars, auxVars, store, tickets, errors, idx, results, ret, notified>>

\* await this.devOpsAdapter.linkPullRequest(bugWorkItem.id, pr.url)
LinkPullRequest ==
  /\ pc = "linkPullRequest"
  /\ \E out \in AllowedOutcomes({"ok", "throw"}) : Invoke("linkPullRequest", out = "ok")
  /\ UNCHANGED <<finderVars, auxVars, store, tickets, errors, args, idx, results, status, stages, progressLog,
                 locals, ret, notified>>

\* await this.devOpsAdapter.addComment(bugWorkItem.id, ...)
AddComment ==
  /\ pc = "addComment"
  /\ \E out \in AllowedOutcomes({"ok", "throw"}) : Invoke("addComment", out = "ok")
  /\ UNCHANGED <<finderVars, auxVars, store, tickets, errors, args, idx, results, status, stages, progressLog,
                 locals, ret, notified>>

\* step 7: the team notification
SendPRNotification ==
  /\ pc = "sendPRNotification"
  /\ status' = updateStatus(status, "notifying_team", 90, "Notifying team")
  /\ stages' = Append(stages, "notifying_team")
  /\ progressLog' = Append(progressLog, status'.progress)
  /\ \E out \in AllowedOutcomes({"ok", "throw"}) : Invoke("sendPRNotification", out = "ok")
  /\ UNCHANGED <<finderVars, auxVars, store, tickets, errors, args, idx, results, locals, ret,
                 notified>>

\* step 8, first half: markAsProcessed
MarkAsProcessed ==
  /\ pc = "markAsProcessed"
  /\ status' = updateStatus(status, "completed", 100, "Completed")
  /\ stages' = Append(stages, "completed")
  /\ progressLog' = Append(progressLog, status'.progress)
  /\ \E out \in AllowedOutcomes({"ok", "throw"}) :
       /\ Invoke("markAsProcessed", out = "ok")
       /\ store' = IF out = "ok"
                     THEN [i \in 1..Len(store) |->
                             IF store[i].id = CurError.id
                               THEN [store[i] EXCEPT
                                       !.processed = TRUE,
                                       !.metadata = MergeMetadata(@,
                                          [NoMetadata EXCEPT
                                             !.workItemId = locals.workItemId,
                                             !.pullRequestUrl = locals.prUrl,
                                             !.branch = locals.branchName,
                                             !.ozRunId = locals.ozRunId],
                                          {"workItemId", "pullRequestUrl", "branch",
                                           "ozRunId"})]
                             ELSE store[i]]
                     ELSE store
  /\ UNCHANGED <<finderVars, auxVars, tickets, errors, args, idx, results, locals, ret, notified>>

\* a faulty catch block: the result keeps what the run had got so far
FailureResultKeeping(error, e) ==
  [success |-> FALSE, errorId |-> error.id, repository |-> locals.repoInfo.fullName,
   branch |-> locals.branchName, pullRequestUrl |-> locals.prUrl, workItemId |-> 0,
   ozRunId |-> <<>>, errorMessage |-> e]

\* the FixResult of the catch block
FailureResult(error, e) ==
  [success |-> FALSE, errorId |-> error.id, repository |-> <<>>, branch |-> <<>>,
   pullRequestUrl |-> <<>>, workItemId |-> 0, ozRunId |-> <<>>, errorMessage |-> e]

\* step 8, second half: updateErrorWithFixInfo, then the return of the result
UpdateErrorWithFixInfo ==
  /\ pc = "updateErrorWithFixInfo"
  /\ \E out \in AllowedOutcomes({"ok", "throw"}) :
       /\ Invoke("updateErrorWithFixInfo", out = "ok")
       /\ store' = IF out = "ok"
                     THEN UpdateFixInfoIn(store, CurError.id,
                            [NoMetadata EXCEPT !.workItemId = locals.workItemId,
                                               !.pullRequestUrl = locals.prUrl,
                                               !.branch = locals.branchName,
                                               !.fixedAt = <<"now">>])
                     ELSE store
       \* the FixResult of the end of the try block
       /\ ret' = IF out = "ok"
                   THEN [success |-> TRUE, errorId |-> CurError.id,
                         repository |-> locals.repoInfo.fullName,
                         branch |-> locals.branchName,
                         pullRequestUrl |-> locals.prUrl,
                         workItemId |-> locals.workItemId,
                         ozRunId |-> locals.ozRunId, errorMessage |-> ""]
                   ELSE ret
  /\ UNCHANGED <<finderVars, auxVars, tickets, errors, args, idx, results, status, stages, progressLog, locals,
                 notified>>

\* a faulty handleWorkflowError: no try/catch around sendErrorNotification
handleWorkflowErrorRethrowing(delivered) ==
  IF delivered THEN "returned" ELSE "threw"

\* handleWorkflowError: whether sendErrorNotification returns or throws, the
\* handler returns normally
handleWorkflowError(delivered) == "returned"

\* the catch block of processError: the error notification with the stage the
\* status holds, then the failed FixResult
CatchWorkflowError ==
  /\ pc = "catch"
  /\ \E delivered \in {TRUE} \cup {b \in {FALSE} : faults < MaxFaults} :
       /\ notified' = Append(notified,
            [errorId |-> CurError.id, stage |-> status.stage, errorMessage |-> err,
             delivered |-> delivered])
       /\ faults' = Faulted(~delivered)
       /\ pc' = handleWorkflowError(delivered)
       /\ ret' = IF pc' = "returned" THEN FailureResult(CurError, err) ELSE ret
  /\ callOrder' = NoteCall(callOrder, CurError.id)
  /\ UNCHANGED <<finderVars, auxVars, store, tickets, errors, args, idx, results, status, stages, progressLog,
                 locals, err, calls>>

\* a faulty loop: the first failed result ends the batch
NextIndexAborting(i, r, n) ==
  IF r.success THEN i + 1 ELSE n + 1

\* for (const error of errors): the index of the next iteration
NextIndex(i, r, n) == i + 1

\* a faulty results.push: the result is put in front
PushResultFront(rs, r) == <<r>> \o rs

\* results.push(result)
PushResult(rs, r) == Append(rs, r)

\* the body of the batch loop after processError: the result is pushed, or,
\* had processError thrown, the failure is notified with stage 'processing'
\* and no result is pushed
CollectResult ==
  /\ pc \in {"returned", "threw"}
  /\ IF pc = "returned"
       THEN /\ results' = PushResult(results, ret)
            /\ UNCHANGED <<notified, faults>>
       ELSE /\ \E delivered \in {TRUE} \cup {b \in {FALSE} : faults < MaxFaults} :
                 /\ notified' = Append(notified,
                       [errorId |-> CurError.id, stage |-> "processing",
                        errorMessage |-> err, delivered |-> delivered])
                 /\ faults' = Faulted(~delivered)
            /\ UNCHANGED results
  /\ idx' = NextIndex(idx, ret, Len(errors))
  /\ pc' = "loop"
  /\ UNCHANGED <<finderVars, auxVars, store, tickets, errors, args, status, stages, progressLog, locals, err,
                 ret, calls, callOrder>>

\* return results
FinishCycle ==
  /\ pc = "loop" /\ idx > Len(errors)
  /\ pc' = "done"
  /\ UNCHANGED <<finderVars, auxVars, store, tickets, errors, args, idx, results, status, stages, progressLog,
                 locals, err, ret, calls, notified, callOrder, faults>>

\* ----------------------------------------------------------- OzAdapter
\* return this.waitForCompletion(runId, 300000)
FixTimeoutMs == 300000
\* const pollInterval = 5000
PollInterval == 5000


\* a status endpoint that reports the real state of the run
GetRunStatusOfRun(impl) ==
  {[status |-> st, message |-> IF st = "failed" THEN "Agent crashed" ELSE ""] :
     st \in {"pending", "running", "completed", "failed", "cancelled"}}

\* what getRunStatus answers: OzAdapter's own method reports 'running' with a
\* message; any other implementation of the interface may report any status
GetRunStatusAnswers(impl) ==
  IF impl = "OzAdapter"
    THEN {[status |-> "running", message |-> "Agent is working on the fix"]}
  ELSE {[status |-> st, message |-> IF st = "failed" THEN "Agent crashed" ELSE ""] :
           st \in {"pending", "running", "completed", "failed", "cancelled"}}


NoOzResult == [success |-> FALSE, summary |-> "", error |-> ""]


\* a faulty loop condition: the loop is entered at the deadline too
WithinTimeoutInclusive(e, ms) == e <= ms

\* while (Date.now() - startTime < timeoutMs)
WithinTimeout(e, ms) == e < ms

\* the loop condition, and the return after the loop
WaitCheck ==
  /\ waitPc = "check"
  /\ IF WithinTimeout(elapsed, timeoutMs)
       THEN /\ waitPc' = "poll"
            /\ UNCHANGED ozResult
       ELSE /\ waitPc' = "returned"
            \* `Timeout after ${timeoutMs}ms`
            /\ ozResult' = [success |-> FALSE, summary |-> "Fix timed out",
                            error |-> CASE timeoutMs = FixTimeoutMs -> TimeoutError
                                        [] timeoutMs = 0 -> "Timeout after 0ms"]
  /\ UNCHANGED <<getRunStatusImpl, timeoutMs, elapsed, polls, lastStatus, terminals,
                 ozFix, sevVars, compVars, mockVars, appVars, finderVars, workflowVars, faults>>

\* const status = await this.getRunStatus(runId), and the three ifs; the
\* answer arrives at once or after some time
WaitPoll ==
  /\ waitPc = "poll"
  /\ \E answer \in GetRunStatusAnswers(getRunStatusImpl), d \in {0, PollInterval} :
       /\ elapsed' = elapsed + d
       /\ polls' = polls + 1
       /\ lastStatus' = answer.status
       /\ IF answer.status \in {"completed", "failed", "cancelled"}
            THEN /\ ozResult' =
                      CASE answer.status = "completed" ->
                             [success |-> TRUE, summary |-> "Fix completed",
                              error |-> ""]
                        [] answer.status = "failed" ->
                             [success |-> FALSE, summary |-> "Fix failed",
                              error |-> answer.message]
                        [] answer.status = "cancelled" ->
                             [success |-> FALSE, summary |-> "Fix was cancelled",
                              error |-> "Run cancelled"]
                 /\ terminals' = terminals + 1
                 /\ waitPc' = "returned"
            ELSE /\ waitPc' = "sleep"
                 /\ UNCHANGED <<ozResult, terminals>>
  /\ UNCHANGED <<getRunStatusImpl, timeoutMs, ozFix, sevVars, compVars, mockVars, appVars, finderVars,
                 workflowVars, faults>>

\* await this.sleep(pollInterval): the timer fires after pollInterval or later
WaitSleep ==
  /\ waitPc = "sleep"
  /\ \E d \in {PollInterval, 2 * PollInterval} : elapsed' = elapsed + d
  /\ waitPc' = "check"
  /\ UNCHANGED <<getRunStatusImpl, timeoutMs, polls, lastStatus, terminals, ozResult,
                 ozFix, sevVars, compVars, mockVars, appVars, finderVars, workflowVars, faults>>

\* processError once fixBug has returned the result of the wait: the check of
\* ozResult.success and, on failure, the catch block
AgentReturned ==
  /\ waitPc = "returned"
  /\ ozFix' = IF AfterAgent(ozResult.success) = "catch"
                THEN FailureResult([id |-> "err-1"], OzFailureMessage(ozResult.error))
                ELSE [NoResult EXCEPT !.success = TRUE, !.errorId = "err-1"]
  /\ waitPc' = "done"
  /\ UNCHANGED <<getRunStatusImpl, timeoutMs, elapsed, polls, lastStatus, terminals,
                 ozResult, sevVars, compVars, mockVars, appVars, finderVars, workflowVars, faults>>

\* ------------------------------------------------------- MockOzAdapter
\* how many fixBug calls are made on the adapter
MaxRuns == 1
\* how many status reports are looked at
MaxObservations == 2

\* a faulty end of the delay: a status set by cancelRun meanwhile is kept
StatusAfterDelayUnlessCancelled(run, failure) ==
  IF run.status = "cancelled" THEN run
  ELSE [run EXCEPT !.status = IF failure THEN "failed" ELSE "completed"]

\* if (run) { run.status = this.simulateFailure ? 'failed' : 'completed' }
StatusAfterDelay(run, failure) ==
  [run EXCEPT !.status = IF failure THEN "failed" ELSE "completed"]

\* fixBug up to its await: the run record is created with status 'running'
MockFixBugStart ==
  /\ Len(runs) < MaxRuns
  /\ runs' = Append(runs, [status |-> "running"])
  /\ fixCalls' = Append(fixCalls,
        [pc |-> "sleep", result |-> NoOzResult,
         cancelledInDelay |-> FALSE, cancelledAfterReturn |-> FALSE])
  /\ UNCHANGED <<simulateFailure, mockWait, observed, ozVars, sevVars, compVars,
                 appVars, finderVars, workflowVars, faults>>

\* fixBug once the simulated delay is over: the status is overwritten and the
\* result built from simulateFailure as it is now
MockFixBugResume ==
  \E i \in 1..Len(runs) :
    /\ fixCalls[i].pc = "sleep"
    /\ runs' = [runs EXCEPT ![i] = StatusAfterDelay(@, simulateFailure)]
    /\ fixCalls' = [fixCalls EXCEPT
          ![i].pc = "returned",
          ![i].result =
             IF simulateFailure
               THEN [success |-> FALSE, summary |-> "Mock fix failed",
                     error |-> "Simulated failure for testing"]
               ELSE [success |-> TRUE, summary |-> "Fixed", error |-> ""]]
    /\ UNCHANGED <<simulateFailure, mockWait, observed, ozVars, sevVars, compVars,
                   appVars, finderVars, workflowVars, faults>>

\* cancelRun(runId): if (run) { run.status = 'cancelled' }
MockCancelRun ==
  \E i \in 1..(Len(runs) + 1) :
    /\ IF i <= Len(runs)
         THEN /\ runs' = [runs EXCEPT ![i].status = "cancelled"]
              /\ fixCalls' = [fixCalls EXCEPT
                    ![i].cancelledInDelay = @ \/ fixCalls[i].pc = "sleep",
                    ![i].cancelledAfterReturn = @ \/ fixCalls[i].pc = "returned"]
         ELSE UNCHANGED <<runs, fixCalls>>
    /\ UNCHANGED <<simulateFailure, mockWait, observed, ozVars, sevVars, compVars,
                   appVars, finderVars, workflowVars, faults>>

\* getRunStatus(runId): the status of the record, or 'failed' for an unknown run
MockGetRunStatus ==
  /\ Len(observed) < MaxObservations
  /\ \E i \in 1..(Len(runs) + 1) :
       observed' = Append(observed,
          IF i > Len(runs)
            THEN [via |-> "getRunStatus", run |-> i, status |-> "failed",
                  message |-> "Run not found"]
            ELSE [via |-> "getRunStatus", run |-> i, status |-> runs[i].status,
                  message |-> CASE runs[i].status = "completed" ->
                                     "Fix completed successfully"
                                [] runs[i].status = "failed" -> "Fix failed"
                                [] OTHER -> "Working on fix..."])
  /\ UNCHANGED <<runs, simulateFailure, fixCalls, mockWait, ozVars, sevVars, compVars,
                 appVars, finderVars, workflowVars, faults>>

\* waitForCompletion(runId) up to its await: an unknown run is answered at once
MockWaitStart ==
  /\ mockWait.pc = "idle"
  /\ Len(observed) < MaxObservations
  /\ \E i \in 1..(Len(runs) + 1) :
       IF i > Len(runs)
         THEN /\ observed' = Append(observed,
                    [via |-> "waitForCompletion", run |-> i, status |-> "failed",
                     message |-> "Run not found"])
              /\ UNCHANGED mockWait
         ELSE /\ mockWait' = [pc |-> "sleep", run |-> i]
              /\ UNCHANGED observed
  /\ UNCHANGED <<runs, simulateFailure, fixCalls, ozVars, sevVars, compVars,
                 appVars, finderVars, workflowVars, faults>>

\* waitForCompletion after its sleep(100): the result is built from the status
\* the record has now
MockWaitReturn ==
  /\ mockWait.pc = "sleep"
  /\ observed' = Append(observed,
        [via |-> "waitForCompletion", run |-> mockWait.run,
         status |-> runs[mockWait.run].status,
         message |-> IF runs[mockWait.run].status = "completed"
                       THEN "Fixed" ELSE "Fix failed"])
  /\ mockWait' = [pc |-> "idle", run |-> 0]
  /\ UNCHANGED <<runs, simulateFailure, fixCalls, ozVars, sevVars, compVars,
                 appVars, finderVars, workflowVars, faults>>

\* setSimulateFailure(value)
SetSimulateFailure ==
  /\ \E value \in BOOLEAN : value # simulateFailure /\ simulateFailure' = value
  /\ UNCHANGED <<runs, fixCalls, mockWait, observed, ozVars, sevVars, compVars,
                 appVars, finderVars, workflowVars, faults>>

\* ---------------------------------------------------- the severity mapping
MaxSeverities == 3

\* priority and severity of the work item createBug builds for an error
MapSeverity ==
  /\ Len(sevOut) < Len(sevIn)
  /\ sevOut' = Append(sevOut,
        [priority |-> mapErrorSeverityToBugPriority(sevIn[Len(sevOut) + 1]),
         severity |-> mapErrorSeverityToBugSeverity(sevIn[Len(sevOut) + 1])])
  /\ UNCHANGED <<sevIn, ozVars, compVars, mockVars, appVars, finderVars, workflowVars, faults>>

\* ------------------------------------------------------ initial states
NoMappings == [defined |-> FALSE, table |-> [s \in {} |-> <<>>]]


\* the records the audit store is seeded with: like the sample data of
\* MockDynamoDBAdapter, with and without a repository hint, with first-party
\* and with dependency frames, of batch and of non-batch severities
ErrorOfShape(sh, id) ==
  CASE sh = "hinted" ->
         [id |-> id, repository |-> <<"myorg", "/", "user-service">>,
          source |-> <<"user-service">>, severity |-> "error",
          message |-> "Cannot read property of undefined",
          stackTrace |-> <<TextLine,
                           JsCallLine(<<"/", "github", ".", "com", "/", "myorg", "/",
                                        "users", "/", "UserService", ".", "ts">>)>>,
          processed |-> FALSE, metadata |-> NoMetadata]
    [] sh = "bare" ->
         [id |-> id, repository |-> <<>>,
          source |-> <<>>, severity |-> "critical",
          message |-> "Connection timeout",
          stackTrace |-> <<JsCallLine(<<"/", "node_modules", "/", "lib", ".", "js">>)>>,
          processed |-> FALSE, metadata |-> NoMetadata]
    [] sh = "warning" ->
         [id |-> id, repository |-> <<"myorg", "/", "user-service">>,
          source |-> <<"user-service">>, severity |-> "warning",
          message |-> "Slow response",
          stackTrace |-> <<BlankLine>>,
          processed |-> FALSE, metadata |-> NoMetadata]

\* the components that are not under study are as constructed and unused
ComponentsIdle(studied) ==
  /\ studied # "oz" =>
       /\ waitPc = "off"
       /\ getRunStatusImpl = "OzAdapter"
       /\ timeoutMs = FixTimeoutMs
       /\ elapsed = 0
       /\ polls = 0
       /\ lastStatus = ""
       /\ terminals = 0
       /\ ozResult = NoOzResult
       /\ ozFix = NoResult
  /\ studied # "severity" =>
       /\ sevIn = <<>>
       /\ sevOut = <<>>
  /\ studied # "parser" =>
       /\ pRaw = <<BlankLine>>
       /\ pMessage = NoMessage
       /\ parseLog = <<>>
       /\ keptFrames = <<>>
  /\ studied # "store" =>
       /\ sErrors = <<>>
       /\ sMarked = {}
       /\ sLast = NoLast
  /\ studied # "area" =>
       /\ aIn = [project |-> "", source |-> <<>>, name |-> <<>>]
       /\ aOut = [asked |-> FALSE, defined |-> FALSE, path |-> <<>>]
  /\ studied # "app" =>
       /\ isRunning = FALSE
       /\ appPc = "idle"
       /\ cycles = <<>>
  /\ studied # "mock" =>
       /\ runs = <<>>
       /\ simulateFailure = FALSE
       /\ fixCalls = <<>>
       /\ mockWait = [pc |-> "idle", run |-> 0]
       /\ observed = <<>>

FinderIdle ==
  /\ repositoryMappings = NoMappings
  /\ mappingCalls = <<>>
  /\ farg = [repository |-> <<>>, source |-> <<>>, frames |-> <<>>]
  /\ fpc = "idle"
  /\ fk = 1
  /\ fsub = "gh"
  /\ fret = RetNone
  /\ ghCalls = <<>>

WorkflowAt(p) ==
  /\ tickets = <<>>
  /\ pc = p
  /\ errors = <<>>
  /\ idx = 1
  /\ results = <<>>
  /\ status = [stage |-> "none", progress |-> 0, message |-> "", error |-> ""]
  /\ stages = <<>>
  /\ progressLog = <<>>
  /\ args = <<>>
  /\ locals = NoLocals
  /\ err = ""
  /\ ret = NoResult
  /\ calls = <<>>
  /\ notified = <<>>
  /\ callOrder = <<>>
  /\ faults = 0

\* the orchestrator over a store of 1..MaxBatch records; its finder is built
\* without a mapping table (new RepositoryFinderService(githubAdapter))
Init ==
  /\ FinderIdle
  /\ LET ids == <<"err-1", "err-2", "err-3", "err-4", "err-5", "err-6", "err-7",
                  "err-8", "err-9", "err-10", "err-11", "err-12">>
     IN \/ \E n \in 1..MaxBatch : \E f \in [1..n -> {"hinted", "bare", "warning"}] :
             store = [i \in 1..n |-> ErrorOfShape(f[i], ids[i])]
        \* a store that holds more eligible records than one batch takes
        \/ store = [i \in 1..(BatchLimit + 2) |->
                      ErrorOfShape(CASE i = 1 -> "hinted" [] i = 2 -> "warning"
                                     [] OTHER -> "bare", ids[i])]
  /\ WorkflowAt("start")
  /\ ComponentsIdle("none")

Next ==
  \/ GetUnprocessedErrors
  \/ BeginProcessError
  \/ FinderHint
  \/ FinderMapping
  \/ FinderStackGithub
  \/ FinderStackAssoc
  \/ FinderSearch
  \/ ResolveRepository
  \/ CreateBug
  \/ CreateBranch
  \/ FixBug
  \/ CreatePullRequest
  \/ LinkPullRequest
  \/ AddComment
  \/ SendPRNotification
  \/ MarkAsProcessed
  \/ UpdateErrorWithFixInfo
  \/ CatchWorkflowError
  \/ CollectResult
  \/ FinishCycle

Spec == Init /\ [][Next]_vars

\* ------------------------------------------ ErrorMonitorApp.runContinuous
\* how many cycles of the monitoring loop are followed
MaxCycles == 2

\* runContinuous up to its loop: this.isRunning = true
RunContinuous ==
  /\ appPc = "idle"
  /\ isRunning' = TRUE
  /\ appPc' = "check"
  /\ UNCHANGED <<cycles, finderVars, workflowVars, ozVars, sevVars, compVars, mockVars,
                 faults>>

\* while (this.isRunning): the next cycle is started (runOnce calls
\* processUnprocessedErrors), or the loop is left and runContinuous returns
LoopCheck ==
  /\ appPc = "check"
  /\ IF isRunning
       THEN /\ Len(cycles) < MaxCycles
            /\ appPc' = "cycle"
            /\ cycles' = Append(cycles, "running")
            /\ pc' = "start"
            /\ faults' = 0
            /\ callOrder' = <<>>
       ELSE /\ appPc' = "returned"
            /\ UNCHANGED <<cycles, pc, faults, callOrder>>
  /\ UNCHANGED <<isRunning, finderVars, ozVars, sevVars, compVars, mockVars, store,
                 tickets, errors, idx, results, status, stages, progressLog, args,
                 locals, err, ret, calls, notified>>

\* a faulty loop body: a cycle that throws ends runContinuous
CycleEndsRethrowing ==
  /\ appPc = "cycle"
  /\ pc \in {"done", "cycleThrew"}
  /\ cycles' = [cycles EXCEPT ![Len(cycles)] =
                  IF pc = "done" THEN "returned" ELSE "threw"]
  /\ appPc' = IF pc = "done" THEN "sleep" ELSE "returned"
  /\ UNCHANGED <<isRunning, finderVars, workflowVars, ozVars, sevVars, compVars,
                 mockVars, faults>>

\* try { await this.runOnce() } catch (error) { logger.error(...) }: the
\* cycle has returned its results or has thrown; either way the sleep follows
CycleEnds ==
  /\ appPc = "cycle"
  /\ pc \in {"done", "cycleThrew"}
  /\ cycles' = [cycles EXCEPT ![Len(cycles)] =
                  IF pc = "done" THEN "returned" ELSE "threw"]
  /\ appPc' = "sleep"
  /\ UNCHANGED <<isRunning, finderVars, workflowVars, ozVars, sevVars, compVars,
                 mockVars, faults>>

\* await this.sleep(this.pollIntervalMs): the timer fires
SleepEnds ==
  /\ appPc = "sleep"
  /\ appPc' = "check"
  /\ UNCHANGED <<isRunning, cycles, finderVars, workflowVars, ozVars, sevVars,
                 compVars, mockVars, faults>>

\* stop(), called by the SIGINT and SIGTERM handlers while runContinuous runs
Stop ==
  /\ appPc # "idle"
  /\ isRunning
  /\ isRunning' = FALSE
  /\ UNCHANGED <<appPc, cycles, finderVars, workflowVars, ozVars, sevVars, compVars,
                 mockVars, faults>>

\* the application in continuous mode over a store of one record
InitApp ==
  /\ FinderIdle
  /\ \E sh \in {"hinted", "bare"} : store = <<ErrorOfShape(sh, "err-1")>>
  /\ WorkflowAt("off")
  /\ ComponentsIdle("none")

NextApp ==
  \/ Next
  \/ RunContinuous
  \/ LoopCheck
  \/ CycleEnds
  \/ SleepEnds
  \/ Stop

\* the steps of runContinuous itself are taken when they can be (its timer
\* fires, its loop goes on); nobody has to call stop(), and whether a cycle
\* ends is up to the collaborators
SpecApp ==
  /\ InitApp
  /\ [][NextApp]_vars
  /\ WF_vars(RunContinuous \/ LoopCheck \/ CycleEnds \/ SleepEnds)

\* ---------------------------------------- findRepository on its own inputs
\* a frame without repository association
PlainFrame(p) == [filePath |-> p, isUserCode |-> IsUserCode(p), repository |-> <<>>]

\* the mapping tables, the traces of up to MaxFrames frames, and traces of
\* more than three first-party frames, with a dependency frame in between and
\* with files of the same base name
InitFinder ==
  /\ repositoryMappings \in
      {NoMappings,
       [defined |-> TRUE, table |-> [s \in {} |-> <<>>]],
       [defined |-> TRUE, table |-> [s \in {<<"svc">>} |-> <<"m", "/", "r">>]],
       [defined |-> TRUE, table |-> [s \in {<<"svc">>} |-> <<"bad">>]]}
  /\ mappingCalls = <<>>
  /\ LET FrameLists ==
          LET FramePaths ==
                {<<"/", "src", "/", "a", ".", "ts">>,
                 <<"/", "github", ".", "com", "/", "g", "/", "h", "/", "b", ".", "ts">>,
                 <<"/", "node_modules", "/", "github", ".", "com", "/", "g", "/", "h", "/",
                   "d", ".", "js">>}
              FrameSet ==
                {[filePath |-> p, isUserCode |-> IsUserCode(p), repository |-> r] :
                    p \in FramePaths, r \in {<<>>, <<"x", "/", "y">>, <<"bad">>}}
          IN UNION {[1..n -> FrameSet] : n \in 0..MaxFrames}
         DeepFrameLists ==
          {<<PlainFrame(<<"/", "src", "/", "a", ".", "ts">>),
             PlainFrame(<<"/", "node_modules", "/", "lib", "/", "d", ".", "js">>),
             PlainFrame(<<"/", "dist", "/", "a", ".", "js">>),
             PlainFrame(<<"/", "src", "/", "b", ".", "ts">>),
             PlainFrame(<<"/", "src", "/", "c", ".", "ts">>)>>,
           <<PlainFrame(<<"/", "src", "/", "a", ".", "ts">>),
             PlainFrame(<<"/", "src", "/", "b", ".", "ts">>),
             PlainFrame(<<"/", "src", "/", "c", ".", "ts">>),
             [PlainFrame(<<"/", "src", "/", "e", ".", "ts">>)
                EXCEPT !.repository = <<"x", "/", "y">>]>>}
     IN \E h \in {<<>>, <<"o", "/", "r">>, <<"o">>, <<"/", "r">>, <<"o", "/">>},
           s \in {<<>>, <<"svc">>},
           fs \in FrameLists \cup DeepFrameLists :
          farg = [repository |-> h, source |-> s, frames |-> fs]
  /\ fpc = "hint"
  /\ fk = 1
  /\ fsub = "gh"
  /\ fret = RetNone
  /\ ghCalls = <<>>
  /\ store = <<>>
  /\ WorkflowAt("off")
  /\ ComponentsIdle("none")

NextFinder ==
  \/ AddMapping
  \/ FinderHint
  \/ FinderMapping
  \/ FinderStackGithub
  \/ FinderStackAssoc
  \/ FinderSearch

SpecFinder == InitFinder /\ [][NextFinder]_vars

\* -------------------------------------- waitForCompletion on its own inputs

InitOz ==
  /\ FinderIdle
  /\ store = <<>>
  /\ WorkflowAt("off")
  /\ ComponentsIdle("oz")
  /\ waitPc = "check"
  /\ getRunStatusImpl \in {"OzAdapter", "IOzAdapter"}
  /\ timeoutMs \in {0, FixTimeoutMs}
  /\ elapsed = 0
  /\ polls = 0
  /\ lastStatus = ""
  /\ terminals = 0
  /\ ozResult = NoOzResult
  /\ ozFix = NoResult

NextOz ==
  \/ WaitCheck
  \/ WaitPoll
  \/ WaitSleep
  \/ AgentReturned

\* timers fire and awaited promises settle: a step that can be taken is taken
SpecOz == InitOz /\ [][NextOz]_vars /\ WF_vars(NextOz)

\* ------------------------------------------ MockOzAdapter on its own calls

InitMock ==
  /\ FinderIdle
  /\ store = <<>>
  /\ WorkflowAt("off")
  /\ ComponentsIdle("mock")
  /\ runs = <<>>
  /\ simulateFailure \in BOOLEAN
  /\ fixCalls = <<>>
  /\ mockWait = [pc |-> "idle", run |-> 0]
  /\ observed = <<>>

NextMock ==
  \/ MockFixBugStart
  \/ MockFixBugResume
  \/ MockCancelRun
  \/ MockGetRunStatus
  \/ MockWaitStart
  \/ MockWaitReturn
  \/ SetSimulateFailure

SpecMock == InitMock /\ [][NextMock]_vars

\* ------------------------------------- the severity mapping on its own inputs

InitSeverity ==
  /\ FinderIdle
  /\ store = <<>>
  /\ WorkflowAt("off")
  /\ ComponentsIdle("severity")
  /\ \E n \in 1..MaxSeverities : sevIn \in [1..n -> {"critical", "error", "warning", "info", "fatal", ""}]
  /\ sevOut = <<>>

SpecSeverity == InitSeverity /\ [][MapSeverity]_vars

\* ------------------------------------------------ parse on its own inputs
\* the text of an unrelated trace, parsed in between
OtherRaw == <<Line("rb", "/srv/app.rb:9:in `run'", <<"/", "srv", "/", "app", ".", "rb">>)>>

\* parser.parse(raw, message) on one of the StackTraceParserService instances
ParseCall(instance, which) ==
  /\ Len(parseLog) < MaxParses
  /\ LET raw == IF which = "same" THEN pRaw ELSE OtherRaw
         message == IF which = "same" THEN pMessage ELSE NoMessage
     IN /\ parseLog' = Append(parseLog, [instance |-> instance, raw |-> raw,
                                         errorMessage |-> message,
                                         result |-> Parse(raw, message)])
        /\ keptFrames' = Parse(raw, message).frames
  /\ UNCHANGED <<pRaw, pMessage, finderVars, workflowVars, ozVars, sevVars, mockVars, appVars, sErrors,
                 sMarked, sLast, aIn, aOut, faults>>

InitParser ==
  /\ FinderIdle
  /\ WorkflowAt("off")
  /\ store = <<>>
  /\ ComponentsIdle("parser")
  \* the lines the texts are built from
  /\ LET LineCatalogue ==
        {\* "    at UserService.getUsers (/src/UserService.ts:45:23)"
         [JsCallLine(<<"/", "src", "/", "UserService", ".", "ts">>)
            EXCEPT !.text = "at UserService.getUsers (/src/UserService.ts:45:23)"],
         \* "    at Layer.handle (/node_modules/express/layer.js:95:5)"
         [JsCallLine(<<"/", "node_modules", "/", "express", "/", "layer", ".", "js">>)
            EXCEPT !.text = "at Layer.handle (/node_modules/express/layer.js:95:5)"],
         \* "    at /src/routes/users.js:8:5"
         Line("jsBare", "at /src/routes/users.js:8:5",
              <<"/", "src", "/", "routes", "/", "users", ".", "js">>),
         \* '  File "/app/main.py", line 42, in process_data'
         Line("py", "File /app/main.py, line 42, in process_data",
              <<"/", "app", "/", "main", ".", "py">>),
         \* "goroutine 1 [running]: main.main() /app/main.go:12 +0x1f"
         Line("goTrace", "goroutine 1 [running]: main.main() /app/main.go:12 +0x1f",
              <<"/", "app", "/", "main", ".", "go">>),
         \* "\t/app/vendor/lib/x.go:12 +0x1f"
         Line("goFile", "/app/vendor/lib/x.go:12 +0x1f",
              <<"/", "app", "/", "vendor", "/", "lib", "/", "x", ".", "go">>),
         \* "\tat com.vendor.Foo.run(Foo.java:10)"
         [Line("java", "at com.vendor.Foo.run(Foo.java:10)", <<"Foo", ".", "java">>)
            EXCEPT !.className = <<"com", ".", "vendor", ".", "Foo">>],
         \* "   at App.Program.Main in /src/App.cs:line 5"
         Line("cs", "at App.Program.Main in /src/App.cs:line 5",
              <<"/", "src", "/", "App", ".", "cs">>),
         \* "/app/models/user.rb:3:in `find'"
         Line("rb", "/app/models/user.rb:3:in `find'",
              <<"/", "app", "/", "models", "/", "user", ".", "rb">>),
         \* "thread 'main' panicked at src/main.rs:4:5"
         Line("rsPanic", "thread 'main' panicked at src/main.rs:4:5",
              <<"src", "/", "main", ".", "rs">>),
         \* "TypeError: Cannot load config.ts"
         [Line("header", "TypeError: Cannot load config.ts", <<"config", ".", "ts">>)
            EXCEPT !.errorType = "TypeError", !.errorMessage = "Cannot load config.ts"],
         \* "Error: Something went wrong"
         [Line("bareError", "Error: Something went wrong", <<>>)
            EXCEPT !.errorType = "Error", !.errorMessage = "Something went wrong"],
         TextLine,
         BlankLine}
     IN pRaw \in UNION {[1..n -> LineCatalogue] : n \in 1..MaxLines}
  /\ pMessage \in {NoMessage, Given("Custom error message")}
  /\ parseLog = <<>>
  /\ keptFrames = <<>>

SpecParser == InitParser /\ [][\E instance \in {1, 2}, which \in {"same", "other"} :
                                    ParseCall(instance, which)]_vars

\* --------------------------------------- the audit store on its own inputs

\* addError(error): Map.prototype.set(error.id, error), a known key keeps
\* its place
AddError(error) ==
  /\ sErrors' = IF \E i \in 1..Len(sErrors) : sErrors[i].id = error.id
                 THEN [i \in 1..Len(sErrors) |->
                         IF sErrors[i].id = error.id THEN error ELSE sErrors[i]]
                 ELSE Append(sErrors, error)
  /\ sMarked' = sMarked \ {error.id}
  /\ sLast' = NoLast
  /\ UNCHANGED <<pRaw, pMessage, parseLog, keptFrames, aIn, aOut,
                 finderVars, workflowVars, ozVars, sevVars, mockVars, appVars, faults>>

\* markAsProcessed(id)
StoreMarkAsProcessed(id) ==
  /\ sErrors' = [i \in 1..Len(sErrors) |->
                   IF sErrors[i].id = id THEN [sErrors[i] EXCEPT !.processed = TRUE]
                   ELSE sErrors[i]]
  /\ IF \E i \in 1..Len(sErrors) : sErrors[i].id = id
       THEN sMarked' = sMarked \cup {id}
       ELSE UNCHANGED sMarked
  /\ sLast' = NoLast
  /\ UNCHANGED <<pRaw, pMessage, parseLog, keptFrames, aIn, aOut,
                 finderVars, workflowVars, ozVars, sevVars, mockVars, appVars, faults>>

\* updateErrorWithFixInfo(id, fixInfo)
StoreUpdateErrorWithFixInfo(id) ==
  /\ sErrors' = UpdateFixInfoIn(sErrors, id,
                 [NoMetadata EXCEPT !.workItemId = 7, !.branch = <<"bug">>])
  /\ sLast' = NoLast
  /\ UNCHANGED <<sMarked, pRaw, pMessage, parseLog, keptFrames, aIn, aOut,
                 finderVars, workflowVars, ozVars, sevVars, mockVars, appVars, faults>>

\* clear()
Clear ==
  /\ sErrors' = <<>>
  /\ sMarked' = {}
  /\ sLast' = NoLast
  /\ UNCHANGED <<pRaw, pMessage, parseLog, keptFrames, aIn, aOut,
                 finderVars, workflowVars, ozVars, sevVars, mockVars, appVars, faults>>

\* getUnprocessedErrors(filter)
StoreGetUnprocessedErrors(filter) ==
  /\ sLast' = [op |-> "query", filter |-> filter,
               answer |-> QueryUnprocessed(sErrors, filter), stats |-> NoLast.stats]
  /\ UNCHANGED <<sErrors, sMarked, pRaw, pMessage, parseLog, keptFrames, aIn, aOut,
                 finderVars, workflowVars, ozVars, sevVars, mockVars, appVars, faults>>

\* getErrorStats()
StoreGetErrorStats ==
  /\ LET unprocessed == SelectSeq(sErrors, LAMBDA e : ~e.processed)
         values(field) == {unprocessed[i][field] : i \in 1..Len(unprocessed)}
         CountBy(field, v) ==
           Cardinality({i \in 1..Len(unprocessed) : unprocessed[i][field] = v})
     IN sLast' = [op |-> "stats", filter |-> NoLast.filter, answer |-> <<>>,
                  stats |-> [totalUnprocessed |-> Len(unprocessed),
                             bySeverity |-> [v \in values("severity") |->
                                               CountBy("severity", v)],
                             bySource |-> [v \in values("source") |->
                                             CountBy("source", v)]]]
  /\ UNCHANGED <<sErrors, sMarked, pRaw, pMessage, parseLog, keptFrames, aIn, aOut,
                 finderVars, workflowVars, ozVars, sevVars, mockVars, appVars, faults>>

\* new MockDynamoDBAdapter([])
InitStore ==
  /\ FinderIdle
  /\ WorkflowAt("off")
  /\ store = <<>>
  /\ ComponentsIdle("store")
  /\ sErrors = <<>>
  /\ sMarked = {}
  /\ sLast = NoLast

NextStore ==
  \/ \E id \in {"err-001", "err-002"}, p \in BOOLEAN,
        k \in {[severity |-> "error", source |-> "user-service", timestamp |-> 2],
               [severity |-> "critical", source |-> "report-service", timestamp |-> 1],
               [severity |-> "critical", source |-> "user-service", timestamp |-> 2]} :
       AddError([id |-> id, timestamp |-> k.timestamp, severity |-> k.severity,
                 source |-> k.source, processed |-> p, metadata |-> NoMetadata])
  \/ \E id \in {"err-001", "err-002", "non-existent"} : StoreMarkAsProcessed(id)
  \/ \E id \in {"err-001", "err-002", "non-existent"} : StoreUpdateErrorWithFixInfo(id)
  \/ Clear
  \/ \E filter \in [severity : {Absent, Some({}), Some({"critical"})},
                     source : {Absent, Some("user-service")},
                     since : {Absent, Some(2)},
                     limit : {Absent, Some(0), Some(1)}] :
       StoreGetUnprocessedErrors(filter)
  \/ StoreGetErrorStats

SpecStore == InitStore /\ [][NextStore]_vars

\* ------------------------------------- determineAreaPath on its own inputs

\* this.determineAreaPath(error, repoInfo)
DetermineArea ==
  /\ ~aOut.asked
  /\ aOut' = DetermineAreaPath(aIn.project, aIn.source, aIn.name)
  /\ UNCHANGED <<aIn, pRaw, pMessage, parseLog, keptFrames, sErrors, sMarked, sLast,
                 finderVars, workflowVars, ozVars, sevVars, mockVars, appVars, faults>>

InitArea ==
  /\ FinderIdle
  /\ WorkflowAt("off")
  /\ store = <<>>
  /\ ComponentsIdle("area")
  /\ LET Words == {"billing", "Auth-Service", "backend", "webhook", "MOBILE"}
         Texts == UNION {[1..n -> Words] : n \in 0..MaxWords}
     IN aIn \in [project : {"", "MyProject"}, source : Texts, name : Texts]
  /\ aOut = [asked |-> FALSE, defined |-> FALSE, path |-> <<>>]

SpecArea == InitArea /\ [][DetermineArea]_vars

\* ---------------------------------------------------------- properties
IsPrefix(a, b) == Len(a) <= Len(b) /\ \A i \in 1..Len(a) : a[i] = b[i]
Last(seq) == seq[Len(seq)]


\* C1: batch failure isolation. When processUnprocessedErrors has returned,
\* every error that comes after a failed error in the batch has been processed
\* too (it has its FixResult): a failure never ends the batch.
C1_FailureIsolation ==
  pc = "done" =>
    \A i \in 1..Len(errors) : \A k \in 1..Len(errors) :
       (/\ i < k
        /\ \E j \in 1..Len(results) :
              results[j].errorId = errors[i].id /\ ~results[j].success) =>
         \E j \in 1..Len(results) : results[j].errorId = errors[k].id

\* C1, its case: a batch of three whose second error alone fails, at the
\* repository resolution; the first and the third succeeded
C1_Witness ==
  /\ pc = "done"
  /\ Len(errors) = 3
  /\ Len(results) = 3
  /\ results[1].success
  /\ ~results[2].success
  /\ results[2].errorMessage = "Could not identify repository"
  /\ results[3].success
  /\ Cardinality({j \in 1..3 : ~results[j].success}) = 1

\* C2: processUnprocessedErrors returns exactly one FixResult per error of
\* the store query, in the query's order, whether the run succeeded or failed,
\* and the errors are handled one at a time: the collaborator calls made for
\* the errors follow the order of the batch and never return to an earlier
\* error.
C2_OneResultPerErrorInOrder ==
  /\ Len(results) <= Len(errors)
  /\ \A i \in 1..Len(results) : results[i].errorId = errors[i].id
  /\ pc = "done" => Len(results) = Len(errors)
  /\ pc \in {"loop", "done"} => Len(results) = idx - 1
  /\ Len(callOrder) <= Len(errors)
  /\ \A i \in 1..Len(callOrder) : callOrder[i] = errors[i].id
  /\ pc \in {"loop", "done"} => Len(callOrder) = idx - 1

\* C2, its case: a finished batch of three with failed and succeeded runs
C2_Witness ==
  /\ pc = "done"
  /\ Len(errors) = 3
  /\ ~results[1].success
  /\ results[2].success
  /\ ~results[3].success

\* C3: processError never lets an exception escape: a run with a failure ends
\* by returning a FixResult with success = false that carries the failure's
\* message, and this also when sendErrorNotification itself throws, which
\* changes nothing in the result.
C3_NeverPropagates ==
  /\ pc # "threw"
  /\ pc = "returned" => (ret.success <=> notified = <<>>)
  /\ (pc = "returned" /\ notified # <<>>) =>
        /\ ~ret.success
        /\ ret.errorId = CurError.id
        /\ ret.errorMessage = err
        /\ ret.errorMessage # ""
        /\ Len(notified) = 1

\* C3, its case: a failed run whose error notification threw
C3_Witness ==
  /\ pc = "returned"
  /\ ~ret.success
  /\ notified # <<>>
  /\ ~Last(notified).delivered
  /\ err = "createBranch"

\* the record of the audit store of the current error
CurRecord == CHOOSE r \in {store[i] : i \in 1..Len(store)} : r.id = CurError.id

\* C4: when the repository resolution answers not-found, the run fails with
\* the repository-not-found message and none of createBug, createBranch,
\* fixBug, createPullRequest, linkPullRequest, addComment, sendPRNotification,
\* markAsProcessed, updateErrorWithFixInfo is invoked: no ticket exists for
\* the error and its record is untouched.
C4_NotFoundAborts ==
  (pc \in {"catch", "returned"} /\ fret.kind = "null") =>
     /\ calls = <<"findRepository">>
     /\ err = "Could not identify repository"
     /\ \A t \in 1..Len(tickets) : tickets[t].relatedErrorId # CurError.id
     /\ ~CurRecord.processed
     /\ CurRecord.metadata = NoMetadata
     /\ pc = "returned" =>
          ~ret.success /\ ret.errorMessage = "Could not identify repository"

\* C4, its case: a run that returned after lookups and a search that all
\* found nothing
C4_Witness ==
  /\ pc = "returned"
  /\ fret.kind = "null"
  /\ Len(ghCalls) >= 2
  /\ Last(ghCalls).op = "searchRepositories"

\* the collaborator operations of one run, in the order of the try block
WorkflowOps ==
  <<"findRepository", "createBug", "createBranch", "fixBug", "createPullRequest",
    "linkPullRequest", "addComment", "sendPRNotification", "markAsProcessed",
    "updateErrorWithFixInfo">>

\* C5: within one run the collaborator operations happen one after the other
\* in the order resolution, createBug, createBranch, fixBug, createPullRequest,
\* linkPullRequest, addComment, sendPRNotification, markAsProcessed,
\* updateErrorWithFixInfo: what has been invoked is always a beginning of
\* that list, the lookups and the search of the resolution all happen before
\* createBug, and a run that returns success = true has invoked every one of
\* them once.
C5_SequentialOrder ==
  /\ IsPrefix(calls, WorkflowOps)
  /\ fpc \notin {"idle", "done"} => calls = <<"findRepository">>
  /\ (pc = "returned" /\ ret.success) => calls = WorkflowOps
  /\ (pc = "catch" /\ err \in {WorkflowOps[i] : i \in 2..Len(WorkflowOps)}) =>
        Last(calls) = err

\* C5, its case: a successful run
C5_Witness ==
  /\ pc = "returned"
  /\ ret.success
  /\ Len(calls) = 10

\* the position of a resolution step in the order of findRepository
StepRank(step) ==
  CASE step = "hint" -> 1
    [] step = "mapping" -> 2
    [] step = "stack" -> 3
    [] step = "search" -> 4

\* a full name with an owner and a repo segment
WellFormed(fullName) == Truthy(LookupOwner(fullName)) /\ Truthy(LookupRepo(fullName))

\* the source-mapping step has a lookup to make
MappingApplies ==
  /\ repositoryMappings.defined
  /\ farg.source \in DOMAIN repositoryMappings.table
  /\ WellFormed(repositoryMappings.table[farg.source])

\* C6: the resolution consults its steps in the order hint, source mapping,
\* stack-trace scan, search, and stops at the first that finds a descriptor:
\* every call but the last one answered no match, a step is never consulted
\* before an earlier applicable one, the descriptor returned is the one of the
\* last call, and when the lookup of a well-formed hint succeeds it is the
\* only call made (no mapping lookup, no frame lookup, no search).
C6_ResolutionOrder ==
  /\ \A i \in 1..Len(ghCalls) : \A j \in 1..Len(ghCalls) :
        i < j => /\ StepRank(ghCalls[i].step) <= StepRank(ghCalls[j].step)
                 /\ ghCalls[i].out \in {"null", "empty"}
  /\ \A i \in 1..Len(ghCalls) :
        /\ (StepRank(ghCalls[i].step) > 1 /\ WellFormed(farg.repository)) =>
              ghCalls[1].step = "hint"
        /\ (StepRank(ghCalls[i].step) > 2 /\ MappingApplies) =>
              \E j \in 1..i : ghCalls[j].step = "mapping"
        /\ (ghCalls[i].step = "search") => i = Len(ghCalls)
  /\ (fpc = "done" /\ fret.kind = "info") =>
        /\ ghCalls # <<>>
        /\ Last(ghCalls).out \in {"data", "hits"}
        /\ Last(ghCalls).op = "getRepository" =>
              /\ fret.info.owner = Last(ghCalls).arg[1]
              /\ fret.info.name = Last(ghCalls).arg[2]
        /\ Last(ghCalls).op = "searchRepositories" =>
              /\ fret.info.name = SearchHit.name
              /\ fret.info.fullName = SearchHit.fullName
  /\ (ghCalls # <<>> /\ ghCalls[1].step = "hint" /\ ghCalls[1].out = "data") =>
        /\ Len(ghCalls) = 1
        /\ fpc = "done"
        /\ fret.kind = "info"
        /\ fret.info.owner = LookupOwner(farg.repository)
        /\ fret.info.name = LookupRepo(farg.repository)

\* C6, its case: a hint that resolves, on an error that also has a mapped
\* source and a first-party frame with a repository pattern and association
C6_Witness ==
  /\ fpc = "done"
  /\ fret.kind = "info"
  /\ Len(ghCalls) = 1
  /\ ghCalls[1].step = "hint"
  /\ MappingApplies
  /\ \E i \in 1..Len(farg.frames) :
        /\ farg.frames[i].isUserCode
        /\ GithubMatch(farg.frames[i].filePath).matched
        /\ WellFormed(farg.frames[i].repository)

C8_StageProgression ==
  (pc = "returned" /\ ret.success) =>
     stages = <<"initializing", "parsing_error", "finding_repository",
                "creating_work_item", "creating_branch", "running_oz_agent",
                "creating_pull_request", "notifying_team", "completed">>

\* C9, as claimed: the stage notified with a failure is the stage of the step
\* that failed, with the failure's message; a failure of the repository
\* resolution is attributed to finding_repository.
C9_FailureStageAttribution ==
  (pc = "returned" /\ ~ret.success) =>
     /\ notified # <<>>
     /\ notified[1].errorMessage = err
     /\ notified[1].stage =
          LET op == Last(calls) IN
          CASE op = "findRepository" -> "finding_repository"
            [] op = "createBug" -> "creating_work_item"
            [] op = "createBranch" -> "creating_branch"
            [] op = "fixBug" -> "running_oz_agent"
            [] op \in {"createPullRequest", "linkPullRequest", "addComment"} ->
                 "creating_pull_request"
            [] op = "sendPRNotification" -> "notifying_team"
            [] op \in {"markAsProcessed", "updateErrorWithFixInfo"} -> "completed"

\* C10, as claimed: every run of processError ends with its status in a
\* terminal stage, completed or failed; a failed run has moved it to failed
\* and recorded the error text.
C10_EndsInTerminalStage ==
  pc = "returned" =>
     /\ status.stage \in {"completed", "failed"}
     /\ ~ret.success => (status.stage = "failed" /\ status.error = err)

\* a run of processError is under way (CurError is its error)
Running ==
  pc \in {"find", "createBug", "createBranch", "fixBug", "createPullRequest",
          "linkPullRequest", "addComment", "sendPRNotification", "markAsProcessed",
          "updateErrorWithFixInfo", "catch", "returned"}

\* C11: stage completed is terminal: once the status of a run has reached
\* completed, the run does not enter the catch block, no error notification
\* is sent for it (none with stage completed in particular), and it returns
\* a FixResult with success = true.
C11_CompletedIsTerminal ==
  (Running /\ status.stage = "completed") =>
     /\ pc # "catch"
     /\ notified = <<>>
     /\ pc = "returned" => ret.success

\* C12: when the fix agent answers success = false the run is aborted as
\* failed: fixBug is the last operation invoked (no createPullRequest,
\* linkPullRequest, addComment, sendPRNotification, markAsProcessed or
\* updateErrorWithFixInfo, no closeWorkItem, no branch deletion), the ticket
\* and the branch created before are still there, the record is not marked,
\* and the FixResult has success = false with the agent's error in its
\* message.
C12_AgentFailureAborts ==
  (Running /\ locals.ozError # "") =>
     /\ pc \in {"catch", "returned"}
     /\ Last(calls) = "fixBug"
     /\ \A i \in 1..Len(calls) :
          calls[i] \notin {"createPullRequest", "linkPullRequest", "addComment",
                           "sendPRNotification", "markAsProcessed",
                           "updateErrorWithFixInfo", "closeWorkItem", "deleteBranch"}
     /\ \E t \in 1..Len(tickets) :
          tickets[t].id = locals.workItemId /\ tickets[t].relatedErrorId = CurError.id
     /\ \E a \in 1..Len(args) : args[a].op = "createBranch"
     /\ ~CurRecord.processed
     /\ err \in {"Oz agent failed to fix bug: Run cancelled",
                  "Oz agent failed to fix bug: Timeout after 300000ms"}
     /\ (locals.ozError = "Run cancelled") =
          (err = "Oz agent failed to fix bug: Run cancelled")
     /\ pc = "returned" => (~ret.success /\ ret.errorMessage = err)

\* C12, its case: the agent reported a timeout and the run has returned
C12_Witness ==
  /\ pc = "returned"
  /\ locals.ozError = TimeoutError
  /\ ret.errorMessage = "Oz agent failed to fix bug: Timeout after 300000ms"
  /\ Len(tickets) >= 1

\* C13: within one run the first failure short-circuits the rest and nothing
\* is retried: once a run has failed, the operations invoked are a beginning
\* of the workflow's list (none twice) ending with the one that failed, the
\* resolution made no call after a call of its own that threw, exactly one
\* sendErrorNotification follows, and no step taken after the failure invokes
\* an operation, creates a ticket or touches the store.
C13_ShortCircuit ==
  /\ []((pc \in {"catch", "returned"} /\ err # "") =>
          /\ IsPrefix(calls, WorkflowOps)
          /\ \/ err = Last(calls)
             \/ Last(calls) = "fixBug" /\ locals.ozError # ""
             \/ /\ Last(calls) = "findRepository"
                /\ err \in {"getRepository", "Could not identify repository"}
          /\ \A i \in 1..(Len(ghCalls) - 1) : ghCalls[i].out # "throw"
          /\ Len(notified) = IF pc = "catch" THEN 0 ELSE 1)
  /\ [][(pc \in {"catch", "returned"} /\ err # "") =>
          /\ calls' = calls
          /\ ghCalls' = ghCalls
          /\ args' = args
          /\ tickets' = tickets
          /\ store' = store
          /\ Len(notified') <= 1]_vars

\* C13, its case: createPullRequest threw, the run has notified and returned
C13_Witness ==
  /\ pc = "returned"
  /\ err = "createPullRequest"
  /\ Len(calls) = 5
  /\ Len(notified) = 1

\* C14: a run returns success = true only after markAsProcessed and then
\* updateErrorWithFixInfo have completed, as its last two operations; the
\* record of the in-memory store is then processed, and its metadata holds
\* the ticket id, PR URL, branch name and run id that the FixResult reports,
\* and the time of the fix.
C14_SuccessAfterPersistence ==
  (pc = "returned" /\ ret.success) =>
     /\ Len(calls) >= 2
     /\ calls[Len(calls) - 1] = "markAsProcessed"
     /\ calls[Len(calls)] = "updateErrorWithFixInfo"
     /\ CurRecord.processed
     /\ ret.workItemId >= 1000
     /\ Truthy(ret.pullRequestUrl) /\ Truthy(ret.branch) /\ Truthy(ret.ozRunId)
     /\ CurRecord.metadata.workItemId = ret.workItemId
     /\ CurRecord.metadata.pullRequestUrl = ret.pullRequestUrl
     /\ CurRecord.metadata.branch = ret.branch
     /\ CurRecord.metadata.ozRunId = ret.ozRunId
     /\ Truthy(CurRecord.metadata.fixedAt)

\* C14, its case: the second error of a batch has been fixed
C14_Witness ==
  /\ pc = "returned"
  /\ ret.success
  /\ idx = 2
  /\ CurRecord.processed

\* the shape of the FixResult of a successful run
SuccessShape(r) ==
  /\ r.success
  /\ Truthy(r.repository) /\ Truthy(r.branch) /\ Truthy(r.pullRequestUrl)
  /\ r.errorMessage = ""

\* the shape of the FixResult of a failed run
FailureShape(r) ==
  /\ ~r.success
  /\ r.errorMessage # ""
  /\ ~Truthy(r.pullRequestUrl)

\* C15: every FixResult has one of two shapes: success = false with a
\* non-empty errorMessage and no PR URL (and empty repository and branch
\* when the repository was never resolved), or success = true with non-empty
\* repository, branch and pullRequestUrl and no errorMessage.
C15_ResultShape ==
  /\ \A i \in 1..Len(results) : SuccessShape(results[i]) \/ FailureShape(results[i])
  /\ pc = "returned" =>
       /\ SuccessShape(ret) \/ FailureShape(ret)
       /\ ret.success = (err = "")
       /\ (~ret.success /\ locals.repoInfo = NoInfo) =>
             (ret.repository = <<>> /\ ret.branch = <<>>)

\* C15, its case: a batch with a successful result, and a run that failed
\* after its pull request was created
C15_Witness ==
  /\ \E i \in 1..Len(results) : results[i].success
  /\ pc = "returned"
  /\ ~ret.success
  /\ Truthy(locals.prUrl)

\* C16: the branch name is 'bug/auto-fix-' followed by the error id:
\* createBranch is given that name and the default branch of the resolved
\* descriptor as its source, fixBug is given the same name, the pull request
\* has it as head and the same default branch as base, the successful
\* FixResult returns it, and results of distinct errors never hold the same
\* branch name.
C16_BranchNaming ==
  /\ Running =>
       /\ \A a \in 1..Len(args) :
            /\ args[a].branch = <<"bug", "/", "auto-fix-", CurError.id>>
            /\ args[a].repository = locals.repoInfo.fullName
            /\ args[a].op \in {"createBranch", "createPullRequest"} =>
                  args[a].base = locals.repoInfo.defaultBranch
       /\ \A a \in 1..Len(args) :
            args[a].op = <<"createBranch", "fixBug", "createPullRequest">>[a]
       /\ Includes(calls, "createBranch") = (Len(args) >= 1)
       /\ Includes(calls, "fixBug") = (Len(args) >= 2)
       /\ Includes(calls, "createPullRequest") = (Len(args) >= 3)
       /\ (pc = "returned" /\ ret.success) =>
             (Len(args) = 3 /\ ret.branch = <<"bug", "/", "auto-fix-", CurError.id>>)
  /\ \A i, j \in 1..Len(results) :
       (i # j /\ results[i].success /\ results[j].success) =>
          results[i].branch # results[j].branch

\* C16, its case: two errors fixed in one batch, the second on a repository
\* whose default branch is not main
C16_Witness ==
  /\ pc = "returned"
  /\ ret.success
  /\ Len(results) >= 1
  /\ results[1].success
  /\ locals.repoInfo.defaultBranch = "develop"

\* the severities of an audit-log error
ErrorSeverities == {"critical", "error", "warning", "info"}

\* C17 as stated: the mapping is defined on exactly the four severities:
\* every value that is mapped to a priority is one of critical, error,
\* warning and info.
C17_OnlyFourAccepted ==
  \A i \in 1..Len(sevOut) : sevIn[i] \in ErrorSeverities

\* C17, amended: critical, error, warning and info are mapped to the
\* priorities 1, 2, 3, 4 and the labels '1 - Critical', '2 - High',
\* '3 - Medium', '4 - Low' (a more severe error never gets a larger number);
\* any other value is not rejected: it is mapped to priority 2 and label
\* '2 - High'.
C17_SeverityMapping ==
  /\ Len(sevOut) <= Len(sevIn)
  /\ \A i \in 1..Len(sevOut) :
       /\ sevIn[i] = "critical" =>
             (sevOut[i].priority = 1 /\ sevOut[i].severity = "1 - Critical")
       /\ sevIn[i] = "error" =>
             (sevOut[i].priority = 2 /\ sevOut[i].severity = "2 - High")
       /\ sevIn[i] = "warning" =>
             (sevOut[i].priority = 3 /\ sevOut[i].severity = "3 - Medium")
       /\ sevIn[i] = "info" =>
             (sevOut[i].priority = 4 /\ sevOut[i].severity = "4 - Low")
       /\ sevIn[i] \notin ErrorSeverities =>
             (sevOut[i].priority = 2 /\ sevOut[i].severity = "2 - High")
  /\ \A i, j \in 1..Len(sevOut) :
       (sevIn[i] = sevIn[j]) => (sevOut[i] = sevOut[j])

\* C17, its case: info, and a value that is no severity, have been mapped
C17_Witness ==
  /\ Len(sevOut) = 2
  /\ sevIn[1] = "info" /\ sevOut[1].priority = 4
  /\ sevIn[2] = "fatal" /\ sevOut[2].priority = 2

\* C18: the progress of the status is an integer of 0..100 that never
\* decreases within a run: it is 0 at initializing, 100 at completed and
\* only there, and every update sets a value at least as large as the one
\* before.
C18_ProgressMonotone ==
  /\ status.progress \in 0..100
  /\ Len(progressLog) = Len(stages)
  /\ progressLog # <<>> => Last(progressLog) = status.progress
  /\ \A i \in 1..Len(progressLog) :
       /\ progressLog[i] \in 0..100
       /\ stages[i] = "initializing" => progressLog[i] = 0
       /\ (progressLog[i] = 100) = (stages[i] = "completed")
  /\ \A i, j \in 1..Len(progressLog) : i <= j => progressLog[i] <= progressLog[j]

\* C18, its case: a run that went through every stage up to completed
C18_Witness ==
  /\ Len(progressLog) = 8
  /\ progressLog[1] = 0
  /\ progressLog[8] = 100
  /\ status.stage = "completed"

\* C19: the wait for the fix agent is bounded: waitForCompletion returns, and
\* the run that awaits it ends; it returns at the first terminal status it
\* is given (completed: success; failed or cancelled: failure with that
\* reason), otherwise, once the timeout has elapsed, a failure with the
\* timeout error (with a timeout of 0, without any poll); the run of a failed
\* wait ends as failed, and after a timeout its errorMessage holds the
\* timeout reason.
C19_WaitIsBounded ==
  /\ <>(waitPc = "done")
  /\ [](waitPc \notin {"returned", "done"} => terminals = 0)
  /\ [](timeoutMs = 0 => polls = 0)
  /\ [](waitPc \in {"returned", "done"} =>
          /\ terminals <= 1
          /\ (terminals = 1) = (lastStatus \in {"completed", "failed", "cancelled"})
          /\ lastStatus = "completed" => ozResult.success
          /\ lastStatus = "failed" =>
                (~ozResult.success /\ ozResult.error = "Agent crashed")
          /\ lastStatus = "cancelled" =>
                (~ozResult.success /\ ozResult.error = "Run cancelled")
          /\ terminals = 0 =>
                /\ ~ozResult.success
                /\ elapsed >= timeoutMs
                /\ ozResult.error = IF timeoutMs = 300000
                                      THEN "Timeout after 300000ms"
                                      ELSE "Timeout after 0ms"
          /\ waitPc = "done" =>
                /\ ozFix.success = ozResult.success
                /\ (terminals = 0 /\ timeoutMs = 300000) =>
                      ozFix.errorMessage =
                        "Oz agent failed to fix bug: Timeout after 300000ms"
                /\ (terminals = 0 /\ timeoutMs = 0) =>
                      ozFix.errorMessage = "Oz agent failed to fix bug: Timeout after 0ms")

\* C19, its case: five minutes of polls that all said running, the timeout
\* result, and the failed run
C19_Witness ==
  /\ waitPc = "done"
  /\ timeoutMs = 300000
  /\ terminals = 0
  /\ polls >= 30
  /\ ~ozFix.success
  /\ ozFix.errorMessage = "Oz agent failed to fix bug: Timeout after 300000ms"

\* C20: every descriptor findRepository returns has fullName equal to its
\* owner, one slash, and its name, neither of them empty or holding a slash.
C20_FullNameIsOwnerSlashName ==
  (fpc = "done" /\ fret.kind = "info") =>
     /\ fret.info.fullName = fret.info.owner \o <<"/">> \o fret.info.name
     /\ Truthy(fret.info.owner) /\ Truthy(fret.info.name)
     /\ ~Includes(fret.info.owner, "/") /\ ~Includes(fret.info.name, "/")

\* the language families in the order detectLanguage tests their markers
Precedence == <<"ecmascript", "python", "go", "java", "csharp", "ruby", "rust">>

\* the positions in Precedence of the families whose marker the text carries
PresentMarkers(lines) ==
  {k \in 1..Len(Precedence) :
     /\ Test(Precedence[k], lines)
     /\ Precedence[k] = "go" => Test("goroutine", lines)
     /\ Precedence[k] = "rust" => Test("panicked", lines)}

\* C21 as stated: every parse call returns a trace whose raw is its input,
\* and for a text without any language marker the language is unknown and the
\* error message is the provided message or, when none is provided, the first
\* non-empty line of the text (the empty string for the empty text).
C21_MessageIsProvidedOrFirstNonEmptyLine ==
  \A i \in 1..Len(parseLog) :
     LET e == parseLog[i] IN
     /\ e.result.raw = e.raw
     /\ PresentMarkers(e.raw) = {} =>
          /\ e.result.language = "unknown"
          /\ e.result.errorMessage =
               IF e.errorMessage.given THEN e.errorMessage.text
               ELSE IF \A k \in 1..Len(e.raw) : e.raw[k].text = "" THEN ""
               ELSE e.raw[CHOOSE k \in 1..Len(e.raw) :
                            /\ e.raw[k].text # ""
                            /\ \A j \in 1..(k - 1) : e.raw[j].text = ""].text

\* C21, amended: every parse call returns a trace whose raw is its input; for
\* a text without any language marker the language is unknown, and the error
\* message is the message of the error header when the first line is one,
\* else the provided message, else the trimmed first line of the text even
\* when that line is empty; the empty text gives unknown, no frame and the
\* provided message or the empty string.
C21_ParseIsTotal ==
  \A i \in 1..Len(parseLog) :
     LET e == parseLog[i] IN
     /\ e.result.raw = e.raw
     /\ PresentMarkers(e.raw) = {} =>
          /\ e.result.language = "unknown"
          /\ e.result.errorMessage =
               IF e.raw[1].kind = "header" THEN e.raw[1].errorMessage
               ELSE IF e.errorMessage.given THEN e.errorMessage.text
               ELSE e.raw[1].text
     /\ e.raw = <<BlankLine>> =>
          /\ e.result.language = "unknown"
          /\ e.result.frames = <<>>
          /\ e.result.errorMessage =
               IF e.errorMessage.given THEN e.errorMessage.text ELSE ""

\* a call without a provided message on a marker-free text that starts with
\* an empty line and goes on with words, and a call with a provided message
\* on a marker-free text whose first line is an error header
C21_Witness ==
  /\ Len(parseLog) >= 2
  /\ PresentMarkers(pRaw) = {}
  /\ \/ /\ ~pMessage.given
        /\ pRaw[1] = BlankLine
        /\ Len(pRaw) > 1
        /\ pRaw[2] = TextLine
        /\ parseLog[2].raw = pRaw
        /\ parseLog[2].result.errorMessage = ""
     \/ /\ pMessage.given
        /\ pRaw[1].kind = "header"
        /\ parseLog[1].raw = pRaw
        /\ parseLog[1].result.errorMessage = "Cannot load config.ts"

\* C22: language detection is a first match in the fixed order ECMAScript,
\* Python, Go, Java, C#, Ruby, Rust: the result belongs to the earliest
\* family whose marker the text carries, and it is unknown exactly when the
\* text carries no marker.
C22_DetectionPrecedence ==
  \A i \in 1..Len(parseLog) :
     LET e == parseLog[i]
         present == PresentMarkers(e.raw)
     IN /\ (e.result.language = "unknown") <=> (present = {})
        /\ present # {} =>
             (IF e.result.language \in {"typescript", "javascript"}
                THEN "ecmascript" ELSE e.result.language) =
               Precedence[CHOOSE k \in present : \A m \in present : k <= m]

\* a text with the markers of Python and of Go was parsed as python
C22_Witness ==
  \E i \in 1..Len(parseLog) :
     /\ {2, 3} \subseteq PresentMarkers(parseLog[i].raw)
     /\ parseLog[i].result.language = "python"

\* C23 as stated: when the ECMAScript call-stack pattern matches, the language
\* is typescript if and only if ".ts" occurs within a line the pattern
\* matches, and javascript otherwise, whatever occurs elsewhere in the text.
C23_NarrowedByMatchedLine ==
  \A i \in 1..Len(parseLog) :
     LET e == parseLog[i] IN
     Test("ecmascript", e.raw) =>
       e.result.language =
         IF IncludesDotTs(SelectSeq(e.raw, LAMBDA l : Matches("ecmascript", l)))
           THEN "typescript"
         ELSE "javascript"

\* C24 as stated: every emitted frame is first-party exactly when its file
\* path contains none of the dependency markers, whatever strategy emitted it.
C24_ClassifiedByFilePath ==
  \A i \in 1..Len(parseLog) :
     \A k \in 1..Len(parseLog[i].result.frames) :
        LET f == parseLog[i].result.frames[k] IN
        f.isUserCode = ~HasLibraryMarker(f.filePath)

\* C24, amended: every emitted frame of the ECMAScript, Python, Go and
\* generic strategies is first-party exactly when its file path contains none
\* of the dependency markers; a frame of the Java strategy, whose file path
\* is a bare file name, is first-party exactly when its qualified class name
\* contains none of them.
C24_FirstPartyClassification ==
  \A i \in 1..Len(parseLog) :
     \A k \in 1..Len(parseLog[i].result.frames) :
        LET f == parseLog[i].result.frames[k] IN
        f.isUserCode =
          IF parseLog[i].result.language = "java"
            THEN ~HasLibraryMarker(f.className)
            ELSE ~HasLibraryMarker(f.filePath)

\* a Java frame of a vendor package was emitted: its file name carries no
\* marker and it is not first-party
C24_Witness ==
  /\ Len(parseLog) >= 1
  /\ parseLog[1].result.language = "java"
  /\ \E k \in 1..Len(parseLog[1].result.frames) :
        /\ ~parseLog[1].result.frames[k].isUserCode
        /\ HasLibraryMarker(parseLog[1].result.frames[k].className)
        /\ ~HasLibraryMarker(parseLog[1].result.frames[k].filePath)

RECURSIVE SumOver(_, _)
\* the sum of the counts of a Record<string, number> over the keys given
SumOver(counts, keys) ==
  IF keys = {} THEN 0
  ELSE LET k == CHOOSE x \in keys : TRUE
       IN counts[k] + SumOver(counts, keys \ {k})

\* what holds of every answer of the store: the records of a query are
\* unprocessed records of the store that markAsProcessed was not applied to;
\* the statistics count the unprocessed records, and their per-severity and
\* per-source counts add up to that count
AnswerSound ==
  /\ sLast.op = "query" =>
       \A k \in 1..Len(sLast.answer) :
          /\ \E i \in 1..Len(sErrors) : sErrors[i] = sLast.answer[k]
          /\ ~sLast.answer[k].processed
          /\ sLast.answer[k].id \notin sMarked
  /\ sLast.op = "stats" =>
       /\ sLast.stats.totalUnprocessed =
            Cardinality({i \in 1..Len(sErrors) : ~sErrors[i].processed})
       /\ sLast.stats.totalUnprocessed =
            SumOver(sLast.stats.bySeverity, DOMAIN sLast.stats.bySeverity)
       /\ sLast.stats.totalUnprocessed =
            SumOver(sLast.stats.bySource, DOMAIN sLast.stats.bySource)

Malformed(fullName) == Truthy(fullName) /\ ~WellFormed(fullName)

\* C27: a malformed full name (hint, mapped name or frame association) is no
\* match and no error: the step that meets it calls no getRepository, raises
\* nothing and hands over to the next step (mapping after the hint, the scan
\* or the search after the mapping, the next frame or the search after a
\* frame association). The steps are those of findRepository: an addMapping
\* call made before the resolution is not one of them.
C27_MalformedIsNoMatch ==
  [][/\ (fpc = "hint" /\ Malformed(farg.repository)
           /\ mappingCalls' = mappingCalls) =>
          (fpc' = "mapping" /\ ghCalls' = ghCalls /\ fret' = fret)
     /\ (fpc = "mapping" /\ repositoryMappings.defined
           /\ farg.source \in DOMAIN repositoryMappings.table
           /\ Malformed(repositoryMappings.table[farg.source])) =>
          (/\ fpc' = StackOrSearch(farg.frames, 1)
           /\ ghCalls' = ghCalls /\ fret' = fret)
     /\ (fpc = "stack" /\ fsub = "assoc"
           /\ Malformed(FilterUser(farg.frames)[fk].repository)) =>
          (/\ fpc' = StackOrSearch(farg.frames, fk + 1)
           /\ fk' = fk + 1
           /\ ghCalls' = ghCalls /\ fret' = fret)]_vars

\* a resolution that met a malformed hint, a malformed mapped name and a
\* malformed frame association, and went on to the search, which found a
\* repository
C27_Witness ==
  /\ fpc = "done"
  /\ Malformed(farg.repository)
  /\ repositoryMappings.defined
  /\ farg.source \in DOMAIN repositoryMappings.table
  /\ Malformed(repositoryMappings.table[farg.source])
  /\ \E i \in 1..Len(farg.frames) :
        farg.frames[i].isUserCode /\ Malformed(farg.frames[i].repository)
  /\ Len(ghCalls) = 1
  /\ ghCalls[1].op = "searchRepositories"
  /\ fret.kind = "info"

RECURSIVE Distinct(_, _)
\* the elements of seq that are not in seen, each once, in first-seen order
Distinct(seen, seq) ==
  IF seq = <<>> THEN <<>>
  ELSE IF Includes(seen, Head(seq)) \/ ~Truthy(Head(seq))
    THEN Distinct(seen, Tail(seq))
  ELSE <<Head(seq)>> \o Distinct(Append(seen, Head(seq)), Tail(seq))

\* the query of the search: the source, if any, and then those of the
\* extension-stripped base names of the first three first-party frames that
\* are new
ExpectedQuery ==
  LET src == IF Truthy(farg.source) THEN <<farg.source>> ELSE <<>>
      user == SelectSeq(farg.frames, LAMBDA f : f.isUserCode)
      n == IF Len(user) < 3 THEN Len(user) ELSE 3
  IN src \o Distinct(src, [k \in 1..n |-> FileBaseName(user[k].filePath)])

\* the positions in the log of the searchRepositories calls
SearchCalls == {i \in 1..Len(ghCalls) : ghCalls[i].op = "searchRepositories"}

\* the descriptor built from a search result
DescriptorOf(hit) ==
  [owner |-> hit.owner, name |-> hit.name, fullName |-> hit.fullName,
   url |-> hit.url, defaultBranch |-> "main"]

RECURSIVE ScanCandidates(_)
\* the full names the scan asks a lookup for, in order: for each first-party
\* frame, in the order of the trace, the owner/repo of an embedded github.com
\* path and then its repository association
ScanCandidates(frames) ==
  IF frames = <<>> THEN <<>>
  ELSE LET frame == Head(frames)
           m == GithubMatch(frame.filePath)
       IN (IF frame.isUserCode /\ m.matched /\ Truthy(m.owner) /\ Truthy(m.repo)
             THEN <<JoinSlash(m.owner, m.repo)>> ELSE <<>>)
          \o (IF frame.isUserCode /\ WellFormed(frame.repository)
                THEN <<frame.repository>> ELSE <<>>)
          \o ScanCandidates(Tail(frames))

\* the lookups the scan has made
StackCalls == SelectSeq(ghCalls, LAMBDA c : c.step = "stack")

\* C29: the scan looks at first-party frames only, in the order of the trace,
\* and for each at the embedded host/owner/repo pattern and then at the
\* repository association: its lookups are, in order, those of the
\* first-party frames, none is made for a frame that is not first-party, each
\* lookup but the last found nothing, a lookup that succeeds ends the
\* resolution with its descriptor, and the resolution leaves the scan
\* without a descriptor only after every lookup has been made.
C29_ScanOrder ==
  LET expected == ScanCandidates(farg.frames) IN
  /\ Len(StackCalls) <= Len(expected)
  /\ \A k \in 1..Len(StackCalls) :
        /\ StackCalls[k].op = "getRepository"
        /\ StackCalls[k].arg = <<LookupOwner(expected[k]), LookupRepo(expected[k])>>
        /\ k < Len(StackCalls) => StackCalls[k].out = "null"
  /\ (StackCalls # <<>> /\ Last(StackCalls).out = "data") =>
        /\ fpc = "done"
        /\ Last(ghCalls) = Last(StackCalls)
        /\ fret.kind = "info"
        /\ fret.info.owner = Last(StackCalls).arg[1]
        /\ fret.info.name = Last(StackCalls).arg[2]
  /\ (fpc = "search" \/ SearchCalls # {} \/ (fpc = "done" /\ fret = RetNull)) =>
        /\ Len(StackCalls) = Len(expected)
        /\ \A k \in 1..Len(StackCalls) : StackCalls[k].out = "null"

\* a trace of two first-party frames that both carry a repository pattern
\* and a repository association: the first lookup of the first frame
\* succeeded, and it is the only lookup of the scan
C29_Witness ==
  /\ fpc = "done"
  /\ Len(farg.frames) = 2
  /\ farg.frames[1].isUserCode
  /\ farg.frames[2].isUserCode
  /\ Len(ScanCandidates(farg.frames)) = 4
  /\ Len(StackCalls) = 1
  /\ StackCalls[1].out = "data"
  /\ fret.kind = "info"

\* the area of the first keyword of the table, in table order, that a text
\* contains; "" if it contains none
KeywordArea(text) ==
  LET ks == {k \in 1..Len(SourceToArea) : LowerIncludes(text, SourceToArea[k].pattern)}
  IN IF ks = {} THEN ""
     ELSE SourceToArea[CHOOSE k \in ks : \A h \in ks : k <= h].area

\* C30 as stated: the area path is undefined when no project is configured
\* and when neither the source nor the repository name contains a keyword;
\* otherwise it is the area of the first keyword of the table contained in
\* the source, or, if the source contains none, in the repository name.
C30_UndefinedWithoutMatch ==
  aOut.asked =>
    IF aIn.project = "" \/ (KeywordArea(aIn.source) = "" /\ KeywordArea(aIn.name) = "")
      THEN ~aOut.defined
      ELSE /\ aOut.defined
           /\ Last(aOut.path) =
                IF KeywordArea(aIn.source) # "" THEN KeywordArea(aIn.source)
                ELSE KeywordArea(aIn.name)

\* C30, amended: the area path is undefined when no project is configured;
\* with a project it is the project followed by the area of the first
\* keyword of the table contained (case-insensitively) in the source, or, if
\* the source contains none, in the repository name, and the project itself
\* (its root area) when neither contains a keyword.
C30_AreaPath ==
  aOut.asked =>
    IF aIn.project = "" THEN ~aOut.defined
    ELSE /\ aOut.defined
         /\ aOut.path =
              IF KeywordArea(aIn.source) # ""
                THEN <<aIn.project, "\\", KeywordArea(aIn.source)>>
              ELSE IF KeywordArea(aIn.name) # ""
                THEN <<aIn.project, "\\", KeywordArea(aIn.name)>>
              ELSE <<aIn.project>>

\* a source with two keywords, the later of the table first, and a
\* repository name with another keyword: the area is the one of the
\* keyword of the source that comes first in the table
C30_Witness ==
  /\ aOut.asked
  /\ aIn.project = "MyProject"
  /\ aIn.source = <<"backend", "Auth-Service">>
  /\ aIn.name = <<"MOBILE">>
  /\ aOut.path = <<"MyProject", "\\", "Authentication">>

\* C31 as stated: the error type and message are read off the first line
\* alone: when it is a word ending in Error (or a dotted name ending in Error
\* or Exception), a colon and a message, the result is that type and that
\* message; otherwise the type is absent and the message is the provided
\* message when one is given, else the first line; no later line has any
\* influence.
C31_FirstLineDecides ==
  \A i \in 1..Len(parseLog) :
     LET e == parseLog[i]
         first == e.raw[1]
     IN IF first.kind \in {"header", "bareError"}
          THEN /\ e.result.errorType = first.errorType
               /\ e.result.errorMessage = first.errorMessage
          ELSE /\ e.result.errorType = ""
               /\ e.result.errorMessage =
                    IF e.errorMessage.given THEN e.errorMessage.text ELSE first.text

\* C32: a run of processError that fails at a stage up to and including the
\* team notification (its failure was not raised by markAsProcessed or
\* updateErrorWithFixInfo) has invoked neither of the two, and the record of
\* its error in the store is the record the run was handed: processed flag
\* and metadata are as they were before the run.
C32_FailedRunLeavesRecord ==
  (/\ pc \in {"catch", "returned"}
   /\ err # ""
   /\ err \notin {"markAsProcessed", "updateErrorWithFixInfo"}) =>
     /\ \A i \in 1..Len(calls) :
           calls[i] \notin {"markAsProcessed", "updateErrorWithFixInfo"}
     /\ CurRecord = CurError
     /\ ~CurRecord.processed
     /\ CurRecord.metadata = NoMetadata

\* the run of the second error of a batch failed at the team notification,
\* after the run of the first error had been persisted: the second record
\* is untouched
C32_Witness ==
  /\ pc = "returned"
  /\ idx = 2
  /\ results # <<>> /\ results[1].success
  /\ ~ret.success
  /\ err = "sendPRNotification"
  /\ Last(calls) = "sendPRNotification"
  /\ store[1].processed
  /\ CurRecord = CurError

\* C33 as stated: an error record is marked processed only by a run that
\* returns success = true: no run sets the processed flag of its record and
\* returns a FixResult with success = false.
C33_ProcessedOnlyBySuccess ==
  (pc = "returned" /\ ~CurError.processed /\ CurRecord.processed) => ret.success

\* C38: one processUnprocessedErrors cycle takes at most 10 errors, all of
\* severity critical or error and unprocessed when selected; a warning or
\* info record is never in the batch, and every ticket the cycle creates is
\* for an error of the batch and has priority 1 or 2.
C38_BatchSelection ==
  /\ Len(errors) <= 10
  /\ \A i \in 1..Len(errors) :
        /\ errors[i].severity \in {"critical", "error"}
        /\ ~errors[i].processed
        /\ \E k \in 1..Len(store) : store[k].id = errors[i].id
  /\ \A t \in 1..Len(tickets) :
        /\ tickets[t].priority \in {1, 2}
        /\ \E i \in 1..Len(errors) : errors[i].id = tickets[t].relatedErrorId

\* a cycle on a store of eleven critical or error records and a warning
\* record: the batch is the first ten of the eleven, a ticket was created
\* for the first, and the cycle has come to its end
C38_Witness ==
  /\ pc = "done"
  /\ Len(store) = 12
  /\ Len(errors) = 10
  /\ Len(results) = 10
  /\ Len(tickets) = 1
  /\ store[2].severity = "warning"
  /\ \A i \in 1..Len(errors) : errors[i].id \notin {store[2].id, store[12].id}

\* C36: with OzAdapter's own getRunStatus every poll of every run reports
\* running, so waitForCompletion never returns through its completed, failed
\* or cancelled branch: the result a fixBug call returns is the timeout result
\* (success = false, "Fix timed out"), and the run that awaits it goes to its
\* catch block, never to createPullRequest (stage creating_pull_request), and
\* ends with success = false.
C36_OzAdapterOnlyTimesOut ==
  getRunStatusImpl = "OzAdapter" =>
     /\ lastStatus \in {"", "running"}
     /\ terminals = 0
     /\ waitPc \in {"returned", "done"} =>
          /\ ozResult.success = FALSE
          /\ ozResult.summary = "Fix timed out"
          /\ ozResult.error \in {TimeoutError, "Timeout after 0ms"}
          /\ AfterAgent(ozResult.success) = "catch"
          /\ AfterAgent(ozResult.success) # AfterCall("fixBug", TRUE)
     /\ waitPc = "done" => (~ozFix.success /\ ozFix.errorMessage # "")

\* C36, its case: OzAdapter polled for five minutes, every answer was running,
\* and the run ended as failed with the timeout
C36_Witness ==
  /\ getRunStatusImpl = "OzAdapter"
  /\ timeoutMs = FixTimeoutMs
  /\ waitPc = "done"
  /\ polls >= 30
  /\ lastStatus = "running"
  /\ ozResult.summary = "Fix timed out"
  /\ ~ozFix.success

\* C37: a RepositoryFinderService constructed without a mapping table never
\* has one: whatever addMapping calls were made, the table stays absent and
\* the resolution makes no lookup in its source-mapping step; with a table,
\* the latest addMapping(source, repo) for a source is the table's entry for
\* it, and a resolution for that source that has gone past step 2 has handed
\* repo to the lookup of step 2 (n/q is well formed, so the host was asked).
C37_AddMappingNeedsTable ==
  /\ [][repositoryMappings'.defined = repositoryMappings.defined]_vars
  /\ [](~repositoryMappings.defined =>
          /\ repositoryMappings = NoMappings
          /\ \A i \in 1..Len(ghCalls) : ghCalls[i].step # "mapping")
  /\ [](repositoryMappings.defined =>
        \A i \in 1..Len(mappingCalls) :
          (\A j \in (i + 1)..Len(mappingCalls) :
              mappingCalls[j].source # mappingCalls[i].source) =>
             /\ mappingCalls[i].source \in DOMAIN repositoryMappings.table
             /\ repositoryMappings.table[mappingCalls[i].source] =
                  mappingCalls[i].repository
             /\ (farg.source = mappingCalls[i].source /\ fpc \in {"stack", "search"}) =>
                  \E c \in 1..Len(ghCalls) :
                     /\ ghCalls[c].step = "mapping"
                     /\ ghCalls[c].arg = <<LookupOwner(mappingCalls[i].repository),
                                           LookupRepo(mappingCalls[i].repository)>>)

\* C37, its case: addMapping was called for the source of the error on a
\* service without a table, and the resolution has passed step 2 without
\* asking the host
C37_Witness ==
  /\ ~repositoryMappings.defined
  /\ Len(mappingCalls) = MaxMappings
  /\ \E i \in 1..Len(mappingCalls) : mappingCalls[i].source = farg.source
  /\ fpc = "search"
  /\ ghCalls = <<>>

\* C35: a cancelRun issued while MockOzAdapter.fixBug is inside its simulated
\* delay does not stick: when the delay ends fixBug overwrites the status
\* with completed (or failed) and returns its normal result; a run whose
\* fixBug has returned is cancelled exactly when a cancelRun was issued after
\* the return, and a run that is cancelled got a cancelRun in the phase it is
\* in.
C35_CancelDuringDelayIsLost ==
  \A i \in 1..Len(runs) :
    /\ fixCalls[i].pc = "sleep" =>
          /\ runs[i].status \in {"running", "cancelled"}
          /\ (runs[i].status = "cancelled") = fixCalls[i].cancelledInDelay
    /\ fixCalls[i].pc = "returned" =>
          /\ (runs[i].status = "cancelled") = fixCalls[i].cancelledAfterReturn
          /\ ~fixCalls[i].cancelledAfterReturn =>
                /\ runs[i].status \in {"completed", "failed"}
                /\ (runs[i].status = "completed") = fixCalls[i].result.success
          /\ fixCalls[i].result.summary \in {"Fixed", "Mock fix failed"}
          /\ fixCalls[i].result.success = (fixCalls[i].result.summary = "Fixed")

\* C35, its case: a run reported as cancelled during the delay of its fixBug
\* and reported as completed afterwards, fixBug having returned success
C35_Witness ==
  \E i \in 1..Len(runs) : \E a, b \in 1..Len(observed) :
    /\ a < b
    /\ observed[a].run = i /\ observed[a].status = "cancelled"
    /\ observed[b].run = i /\ observed[b].status = "completed"
    /\ fixCalls[i].cancelledInDelay
    /\ fixCalls[i].pc = "returned"
    /\ fixCalls[i].result.success

\* C39: a cycle that throws does not end runContinuous: the sleep follows
\* every cycle, the loop check follows every sleep, and runContinuous returns
\* only when isRunning is false; once stop() has been called isRunning stays
\* false and no new cycle starts; and, provided every cycle ends (returns or
\* throws), runContinuous then returns.
C39_LoopSurvivesAndStops ==
  /\ [](appPc = "returned" => ~isRunning)
  /\ [][(appPc = "cycle" /\ appPc' # "cycle") => appPc' = "sleep"]_vars
  /\ [][(appPc = "sleep" /\ appPc' # "sleep") => appPc' = "check"]_vars
  /\ [][(appPc # "idle" /\ ~isRunning) => ~isRunning']_vars
  /\ [][Len(cycles') > Len(cycles) => (isRunning /\ isRunning')]_vars
  /\ ((appPc = "cycle") ~> (pc \in {"done", "cycleThrew"})) =>
        ((appPc # "idle" /\ ~isRunning) ~> (appPc = "returned"))

\* C39, its case: the first cycle threw, a second cycle was started all the
\* same, stop() was called and runContinuous has returned
C39_Witness ==
  /\ Len(cycles) = 2
  /\ cycles[1] = "threw"
  /\ cycles[2] \in {"returned", "threw"}
  /\ ~isRunning
  /\ appPc = "returned"

\* C34 as stated: there is no deduplication by error id across cycles: a run
\* that fails after its ticket was created leaves the record unprocessed, an
\* unprocessed record is in the batch of the cycle that queries the store,
\* every such cycle adds one ticket for the same error id (one per cycle, so
\* more than one over the cycles) and creates the branch bug/auto-fix-<id>
\* again.
C34_FailedRunIsRetried ==
  /\ (pc = "returned" /\ ~ret.success /\ locals.workItemId # NoLocals.workItemId) =>
        ~CurRecord.processed
  /\ (pc \notin {"off", "start", "cycleThrew"} /\ ~store[1].processed) =>
        \E j \in 1..Len(errors) : errors[j].id = store[1].id
  /\ \A a \in 1..Len(args) :
        args[a].op = "createBranch" => args[a].branch = BranchName(store[1].id)
  /\ \A t \in 1..Len(tickets) : tickets[t].relatedErrorId = store[1].id
  /\ Len(tickets) <= Len(cycles)

====
